---- MODULE Spec2Model ----
(***************************************************************************)
(* PDF Search Plus: the indexed document store (utils/db.py), its search   *)
(* and count queries, and the ingestion pipeline (core/pdf_processor.py).  *)
(*                                                                         *)
(* Text is a sequence of one-character strings.  The store is one record   *)
(* of tables; every method of PDFDatabase opens its own connection and     *)
(* commits once, so each method is one atomic step on the store.           *)
(***************************************************************************)
EXTENDS Integers, Sequences, FiniteSets, TLC

VARIABLES
    db,         \* the SQLite database: tables, FTS5 tables, sqlite_sequence
    now,        \* CURRENT_TIMESTAMP, in seconds
    ret,        \* what the last store call returned or raised
    pc,         \* per ingestion thread: position inside process_pdf
    job,        \* per ingestion thread: locals of process_pdf
    image_cache,\* module-level image_cache: key -> OCR text
    pdf_cache,  \* module-level pdf_cache: the paths put
    completed,  \* history: files some process_pdf run finished successfully
    overlap,    \* history: files two process_pdf runs ever worked on at once
    pager,      \* a client paging through the results of one search
    cache,      \* utils/cache.py: the cache object under study and its directory
    puts,       \* history: per key, the most recent put made to `cache`
    ocr,        \* the TesseractOCRProcessor and the temporary files on disk
    batch,      \* process_folder: the worker pool, its queue and its futures
    engine,     \* what the OCR engine reads from each image of a document
    window,     \* gui/search_app.py: the search window, its worker and its events
    checker     \* utils/memory.py: a MemoryCheck, its callers and its loop threads

\* The state of the clients of the store.
clientVars == <<pager, cache, puts, ocr, batch, engine, window, checker>>
vars == <<db, now, ret, pc, job, image_cache, pdf_cache, completed, overlap, clientVars>>
\* Everything but the store, its clock and its last return.
ingestVars == <<pc, job, image_cache, pdf_cache, completed, overlap, clientVars>>

(***************************************************************************)
(* Bounds of the model.                                                    *)
(***************************************************************************)
MaxPdfRows == 2      \* pdf_files rows ever inserted through the store API
MaxPageRows == 1     \* pages rows ever inserted through the store API
MaxOcrRows == 2      \* ocr_text rows ever inserted through the store API
MaxImageRows == 1    \* images rows ever inserted through the store API
MaxPage == 2         \* page numbers of the store API calls
MaxTime == 1         \* the clock stops ticking here
MaxLimit == 2        \* limit of a search call
MaxOffset == 1       \* offset of a search call
MaxSearchPage == 1   \* page numbers of the documents that are searched
MaxSearchOcrRows == 1  \* ocr_text rows of the documents that are searched

(***************************************************************************)
(* Program constants.                                                      *)
(***************************************************************************)
MAX_TERM_LENGTH == 100

(***************************************************************************)
(* Generic helpers.                                                        *)
(***************************************************************************)
Max(S) == CHOOSE x \in S : \A y \in S : y <= x
Min2(a, b) == IF a <= b THEN a ELSE b
Range(s) == {s[i] : i \in DOMAIN s}

RECURSIVE Concat(_)
Concat(ss) == IF ss = <<>> THEN <<>> ELSE Head(ss) \o Concat(Tail(ss))

(***************************************************************************)
(* utils/security.py                                                       *)
(***************************************************************************)
\* Characters below 32 other than \n \r \t; "^A" stands for chr(1).
ControlChars == {"^A"}

\* html.escape(c, quote=True) for one character.
HtmlEscapeChar(c) ==
    CASE c = "&" -> <<"&", "a", "m", "p", ";">>
      [] c = "<" -> <<"&", "l", "t", ";">>
      [] c = ">" -> <<"&", "g", "t", ";">>
      [] c = "\"" -> <<"&", "q", "u", "o", "t", ";">>
      [] c = "'" -> <<"&", "#", "x", "2", "7", ";">>
      [] OTHER -> <<c>>

\* sanitize_text: "" for an empty text, else html.escape and then the control
\* characters dropped.
sanitize_text(text) ==
    IF text = <<>> THEN <<>>
    ELSE LET escaped == Concat([i \in DOMAIN text |-> HtmlEscapeChar(text[i])])
         IN  SelectSeq(escaped, LAMBDA c : c \notin ControlChars)

\* The characters re.sub(r'[;\'"\\/]', '', term) removes.
SqlSpecialChars == {";", "'", "\"", "\\", "/"}

\* sanitize_search_term: the special characters removed, then cut to 100.
sanitize_search_term(term) ==
    IF term = <<>> THEN <<>>
    ELSE LET stripped == SelectSeq(term, LAMBDA c : c \notin SqlSpecialChars)
         IN  SubSeq(stripped, 1, Min2(Len(stripped), MAX_TERM_LENGTH))

(***************************************************************************)
(* utils/db.py: the schema.                                                *)
(***************************************************************************)
\* The database create_database leaves: every table empty.
create_database ==
    [pdf_files |-> {}, pages |-> {}, images |-> {}, ocr_text |-> {},
     fts_content |-> {}, fts_ocr |-> {},
     sqlite_sequence |-> [pdf_files |-> 0, pages |-> 0, images |-> 0, ocr_text |-> 0]]

\* The rowid an FTS5 table gives a new row: one more than the largest in use.
NextRowid(table) == IF table = {} THEN 1 ELSE Max({e.rowid : e \in table}) + 1

\* PRAGMA foreign_keys = ON, FOREIGN KEY(pdf_id) REFERENCES pdf_files(id):
\* a child row's pdf_id must name a pdf_files row.
\* A connection opened without "PRAGMA foreign_keys = ON" checks nothing.
ForeignKeysOff(d, pdf_id) == TRUE
ForeignKeyOk(d, pdf_id) == \E f \in d.pdf_files : f.id = pdf_id

\* Trigger pages_ai.
pages_ai(d, new) ==
    [d EXCEPT !.fts_content = @ \cup
        {[rowid |-> NextRowid(@), pdf_id |-> new.pdf_id,
          page_number |-> new.page_number, content |-> new.text,
          source |-> "PDF Text"]}]

\* Trigger pages_ad.
pages_ad(d, old) ==
    [d EXCEPT !.fts_content =
        {e \in @ : ~(e.pdf_id = old.pdf_id /\ e.page_number = old.page_number)}]

\* Trigger pages_au.
pages_au(d, old, new) ==
    [d EXCEPT !.fts_content =
        {IF e.pdf_id = old.pdf_id /\ e.page_number = old.page_number
            THEN [e EXCEPT !.content = new.text] ELSE e : e \in @}]

\* Trigger ocr_text_ai.
ocr_text_ai(d, new) ==
    [d EXCEPT !.fts_ocr = @ \cup
        {[rowid |-> NextRowid(@), pdf_id |-> new.pdf_id,
          page_number |-> new.page_number, content |-> new.ocr_text,
          source |-> "OCR Text"]}]

\* Trigger ocr_text_ad.
ocr_text_ad(d, old) ==
    [d EXCEPT !.fts_ocr =
        {e \in @ : ~(e.pdf_id = old.pdf_id /\ e.page_number = old.page_number)}]

\* Trigger ocr_text_au.
ocr_text_au(d, old, new) ==
    [d EXCEPT !.fts_ocr =
        {IF e.pdf_id = old.pdf_id /\ e.page_number = old.page_number
            THEN [e EXCEPT !.content = new.ocr_text] ELSE e : e \in @}]

\* Trigger pdf_files_au (recursive triggers are off: it runs once per update).
pdf_files_au(d, new, t) ==
    [d EXCEPT !.pdf_files =
        {IF f.id = new.id THEN [f EXCEPT !.last_accessed = t] ELSE f : f \in @}]

(***************************************************************************)
(* utils/db.py: the SQL statements the methods run, with their triggers.   *)
(***************************************************************************)
\* INSERT INTO pdf_files (file_name, file_path): AUTOINCREMENT id, both
\* timestamps CURRENT_TIMESTAMP; the table declares no uniqueness.
InsertPdfFileRow(d, file_name, file_path, t) ==
    LET id == d.sqlite_sequence.pdf_files + 1
    IN  [d EXCEPT !.pdf_files = @ \cup
                      {[id |-> id, file_name |-> file_name, file_path |-> file_path,
                        created_at |-> t, last_accessed |-> t]},
                  !.sqlite_sequence.pdf_files = id]

\* INSERT INTO pages (pdf_id, page_number, text), then pages_ai.
InsertPageRow(d, pdf_id, page_number, text) ==
    LET new == [id |-> d.sqlite_sequence.pages + 1, pdf_id |-> pdf_id,
                page_number |-> page_number, text |-> text]
    IN  pages_ai([d EXCEPT !.pages = @ \cup {new},
                           !.sqlite_sequence.pages = new.id], new)

\* A process_pdf that calls the OCR engine before it saves the image metadata
\* has no images row yet when the OCR text is stored.
MetadataDeferred(d, pdf_id, page_number, image_name, image_ext) == d

\* INSERT INTO images (pdf_id, page_number, image_name, image_ext).
InsertImageRow(d, pdf_id, page_number, image_name, image_ext) ==
    LET new == [id |-> d.sqlite_sequence.images + 1, pdf_id |-> pdf_id,
                page_number |-> page_number, image_name |-> image_name,
                image_ext |-> image_ext]
    IN  [d EXCEPT !.images = @ \cup {new}, !.sqlite_sequence.images = new.id]

\* INSERT INTO ocr_text (pdf_id, page_number, ocr_text), then ocr_text_ai.
InsertOcrRow(d, pdf_id, page_number, text) ==
    LET new == [id |-> d.sqlite_sequence.ocr_text + 1, pdf_id |-> pdf_id,
                page_number |-> page_number, ocr_text |-> text]
    IN  ocr_text_ai([d EXCEPT !.ocr_text = @ \cup {new},
                              !.sqlite_sequence.ocr_text = new.id], new)

\* UPDATE pages SET text = ? WHERE id = ?, then pages_au for the row.
UpdatePageRow(d, id, text) ==
    LET old == CHOOSE p \in d.pages : p.id = id
        new == [old EXCEPT !.text = text]
    IN  pages_au([d EXCEPT !.pages = (@ \ {old}) \cup {new}], old, new)

\* UPDATE ocr_text SET ocr_text = ? WHERE id = ?, then ocr_text_au for the row.
UpdateOcrRow(d, id, text) ==
    LET old == CHOOSE o \in d.ocr_text : o.id = id
        new == [old EXCEPT !.ocr_text = text]
    IN  ocr_text_au([d EXCEPT !.ocr_text = (@ \ {old}) \cup {new}], old, new)

\* DELETE FROM pages WHERE id = ?, then pages_ad for the row.
DeletePageRow(d, id) ==
    LET old == CHOOSE p \in d.pages : p.id = id
    IN  pages_ad([d EXCEPT !.pages = @ \ {old}], old)

\* DELETE FROM ocr_text WHERE id = ?, then ocr_text_ad for the row.
DeleteOcrRow(d, id) ==
    LET old == CHOOSE o \in d.ocr_text : o.id = id
    IN  ocr_text_ad([d EXCEPT !.ocr_text = @ \ {old}], old)

RECURSIVE DeletePageRows(_, _)
DeletePageRows(d, ids) ==
    IF ids = {} THEN d
    ELSE LET id == CHOOSE i \in ids : TRUE
         IN  DeletePageRows(DeletePageRow(d, id), ids \ {id})

RECURSIVE DeleteOcrRows(_, _)
DeleteOcrRows(d, ids) ==
    IF ids = {} THEN d
    ELSE LET id == CHOOSE i \in ids : TRUE
         IN  DeleteOcrRows(DeleteOcrRow(d, id), ids \ {id})

\* ON DELETE CASCADE of pages, images and ocr_text: the child rows of the
\* document go, and the delete triggers run for each of them.
CascadeDelete(d, pdf_id) ==
    LET d1 == DeletePageRows(d, {p.id : p \in {q \in d.pages : q.pdf_id = pdf_id}})
        d2 == [d1 EXCEPT !.images = {i \in @ : i.pdf_id # pdf_id}]
    IN  DeleteOcrRows(d2, {o.id : o \in {q \in d2.ocr_text : q.pdf_id = pdf_id}})

\* The same DELETE on a connection without PRAGMA foreign_keys = ON: the
\* child rows stay.
DeletePdfFileRowNoForeignKeys(d, pdf_id) ==
    [d EXCEPT !.pdf_files = {f \in @ : f.id # pdf_id}]

\* DELETE FROM pdf_files WHERE id = ? on a connection that enforces foreign keys.
DeletePdfFileRow(d, pdf_id) ==
    CascadeDelete([d EXCEPT !.pdf_files = {f \in @ : f.id # pdf_id}], pdf_id)

\* A search that leaves last_accessed alone.
KeepLastAccessed(d, pdf_id, t) == d

\* UPDATE pdf_files SET last_accessed = CURRENT_TIMESTAMP WHERE id = ?, then
\* pdf_files_au.
UpdateLastAccessed(d, pdf_id, t) ==
    LET hit == {f \in d.pdf_files : f.id = pdf_id}
        d1 == [d EXCEPT !.pdf_files =
                  {IF f \in hit THEN [f EXCEPT !.last_accessed = t] ELSE f : f \in @}]
    IN  IF hit = {} THEN d
        ELSE pdf_files_au(d1, CHOOSE f \in d1.pdf_files : f.id = pdf_id, t)

\* PDFMetadata.__post_init__: the file name is sanitized, the path kept.
PDFMetadata(file_name, file_path) ==
    [file_name |-> sanitize_text(file_name), file_path |-> file_path]

\* A lookup that sanitizes the already sanitized name once more.
is_pdf_processed_resanitized(d, metadata) ==
    \E f \in d.pdf_files :
        f.file_name = sanitize_text(metadata.file_name) /\ f.file_path = metadata.file_path

\* is_pdf_processed: SELECT id FROM pdf_files WHERE file_name = ? AND file_path = ?
is_pdf_processed(d, metadata) ==
    \E f \in d.pdf_files :
        f.file_name = metadata.file_name /\ f.file_path = metadata.file_path

(***************************************************************************)
(* SQLite text matching: LIKE, and FTS5 MATCH with tokenize='porter        *)
(* unicode61'.                                                             *)
(***************************************************************************)
LowerSeq == <<"a", "b", "c", "d", "e", "f", "g", "h", "i", "j", "k", "l", "m",
              "n", "o", "p", "q", "r", "s", "t", "u", "v", "w", "x", "y", "z">>
UpperSeq == <<"A", "B", "C", "D", "E", "F", "G", "H", "I", "J", "K", "L", "M",
              "N", "O", "P", "Q", "R", "S", "T", "U", "V", "W", "X", "Y", "Z">>
DigitSeq == <<"0", "1", "2", "3", "4", "5", "6", "7", "8", "9">>
Alnum == Range(LowerSeq) \cup Range(UpperSeq) \cup Range(DigitSeq)
Whitespace == {" ", "\t", "\n", "\r"}

\* ASCII case folding, as LIKE and unicode61 both do.
Fold(c) ==
    IF c \in Range(UpperSeq)
        THEN LowerSeq[CHOOSE i \in DOMAIN UpperSeq : UpperSeq[i] = c]
        ELSE c

IsPrefix(p, s) == Len(p) <= Len(s) /\ SubSeq(s, 1, Len(p)) = p

\* text LIKE pattern: % matches any run, _ any one character, the rest
\* compares case-folded.
RECURSIVE LikeMatch(_, _)
LikeMatch(pattern, text) ==
    IF pattern = <<>> THEN text = <<>>
    ELSE IF Head(pattern) = "%"
        THEN \/ LikeMatch(Tail(pattern), text)
             \/ (text # <<>> /\ LikeMatch(pattern, Tail(text)))
    ELSE IF text = <<>> THEN FALSE
    ELSE /\ (Head(pattern) = "_" \/ Fold(Head(pattern)) = Fold(Head(text)))
         /\ LikeMatch(Tail(pattern), Tail(text))

\* Split a character sequence into its maximal runs of characters of `keep`.
RECURSIVE Runs(_, _, _, _)
Runs(text, keep, cur, acc) ==
    IF text = <<>> THEN (IF cur = <<>> THEN acc ELSE Append(acc, cur))
    ELSE IF Head(text) \in keep
        THEN Runs(Tail(text), keep, Append(cur, Head(text)), acc)
    ELSE Runs(Tail(text), keep, <<>>, IF cur = <<>> THEN acc ELSE Append(acc, cur))

\* The porter tokenizer: a token of fewer than three characters passes
\* through; of the stemmer's steps only 1a (plural endings) is written out,
\* which is all that applies to the words of this model.
PorterStem(token) ==
    LET n == Len(token)
        EndsWith(suffix) == n >= Len(suffix)
                            /\ SubSeq(token, n - Len(suffix) + 1, n) = suffix
    IN  IF n < 3 THEN token
        ELSE IF EndsWith(<<"s", "s", "e", "s">>) THEN SubSeq(token, 1, n - 2)
        ELSE IF EndsWith(<<"i", "e", "s">>) THEN SubSeq(token, 1, n - 2)
        ELSE IF EndsWith(<<"s", "s">>) THEN token
        ELSE IF EndsWith(<<"s">>) THEN SubSeq(token, 1, n - 1)
        ELSE token

\* unicode61, then porter: the runs of letters and digits, case-folded, stemmed.
Tokenize(text) ==
    LET raw == Runs(text, Alnum, <<>>, <<>>)
    IN  [i \in DOMAIN raw |-> PorterStem([j \in DOMAIN raw[i] |-> Fold(raw[i][j])])]

\* The characters of an FTS5 bareword.
BarewordChars == Alnum \cup {"_"}

\* The query string f"{sanitized_term}*" does not parse as an FTS5 query: no
\* bareword stands before the star, or a character is neither bareword nor
\* white space.  (Of the characters FTS5 gives a meaning, + ^ ( ) : - { } and
\* the upper-case keywords, none occurs in the terms of this model.)
FtsSyntaxError(sanitized) ==
    \/ \E i \in DOMAIN sanitized : sanitized[i] \notin BarewordChars \cup Whitespace
    \/ Runs(sanitized, BarewordChars, <<>>, <<>>) = <<>>

\* The phrases of the query f"{sanitized_term}*": one per bareword, each the
\* bareword's tokens; the star marks the last bareword a prefix.  A phrase
\* without tokens is dropped from the implicit AND.
FtsPhrases(sanitized) ==
    LET words == Runs(sanitized, BarewordChars, <<>>, <<>>)
        all == [i \in DOMAIN words |->
                   [tokens |-> Tokenize(words[i]), prefix |-> (i = Len(words))]]
    IN  SelectSeq(all, LAMBDA ph : ph.tokens # <<>>)

\* A phrase occurs in the document: its tokens stand in a row, the last one
\* as a prefix when the phrase carries the star.
PhraseOccurs(ph, doc) ==
    LET n == Len(ph.tokens)
    IN  \E start \in 1..(Len(doc) - n + 1) :
            \A k \in 1..n :
                IF k = n /\ ph.prefix
                    THEN IsPrefix(ph.tokens[k], doc[start + k - 1])
                    ELSE doc[start + k - 1] = ph.tokens[k]

\* content MATCH f"{sanitized_term}*", for a query that parses.
FtsMatch(sanitized, content) ==
    LET phrases == FtsPhrases(sanitized)
        doc == Tokenize(content)
    IN  /\ phrases # <<>>
        /\ \A i \in DOMAIN phrases : PhraseOccurs(phrases[i], doc)

\* text LIKE f"%{sanitized_term}%".
LikeContains(sanitized, text) == LikeMatch(<<"%">> \o sanitized \o <<"%">>, text)

(***************************************************************************)
(* Inputs of the store calls.                                              *)
(***************************************************************************)
FileNames == {<<"d", "&">>}
FilePaths == {"/p/x.pdf", "/p/y.pdf"}
Texts == {<<"b">>, <<"a", " ", "b">>}
PageNumbers == 1..MaxPage
PdfIds == 1..(MaxPdfRows + 1)
PageRowIds == 1..MaxPageRows
OcrRowIds == 1..MaxOcrRows

\* What a store call hands back: the value it returns or the error it raises.
NoReturn ==
    [op |-> "none", error |-> "none", id |-> 0, count |-> 0, result |-> <<>>,
     term |-> <<>>, use_fts |-> FALSE, limit |-> 0, offset |-> 0]

(***************************************************************************)
(* utils/db.py: the methods of PDFDatabase, one action each.               *)
(***************************************************************************)
\* insert_pdf_file(metadata): inserts and returns cursor.lastrowid.
insert_pdf_file(file_name, file_path) ==
    LET metadata == PDFMetadata(file_name, file_path)
    IN  /\ db.sqlite_sequence.pdf_files < MaxPdfRows
        /\ db' = InsertPdfFileRow(db, metadata.file_name, metadata.file_path, now)
        /\ ret' = [NoReturn EXCEPT !.op = "insert_pdf_file",
                                   !.id = db'.sqlite_sequence.pdf_files]
        /\ UNCHANGED <<now, ingestVars>>

\* insert_page_text(pdf_id, page_number, text): IntegrityError, and nothing
\* written, when the foreign key fails.
insert_page_text(pdf_id, page_number, text) ==
    /\ db.sqlite_sequence.pages < MaxPageRows
    /\ IF ForeignKeyOk(db, pdf_id)
          THEN /\ db' = InsertPageRow(db, pdf_id, page_number, text)
               /\ ret' = [NoReturn EXCEPT !.op = "insert_page_text"]
          ELSE /\ db' = db
               /\ ret' = [NoReturn EXCEPT !.op = "insert_page_text",
                                          !.error = "IntegrityError"]
    /\ UNCHANGED <<now, ingestVars>>

\* insert_image_metadata(pdf_id, page_number, image_name, image_ext).
insert_image_metadata(pdf_id, page_number, image_name, image_ext) ==
    /\ db.sqlite_sequence.images < MaxImageRows
    /\ IF ForeignKeyOk(db, pdf_id)
          THEN /\ db' = InsertImageRow(db, pdf_id, page_number, image_name, image_ext)
               /\ ret' = [NoReturn EXCEPT !.op = "insert_image_metadata"]
          ELSE /\ db' = db
               /\ ret' = [NoReturn EXCEPT !.op = "insert_image_metadata",
                                          !.error = "IntegrityError"]
    /\ UNCHANGED <<now, ingestVars>>

\* insert_image_ocr_text(pdf_id, page_number, ocr_text).
insert_image_ocr_text(pdf_id, page_number, text) ==
    /\ db.sqlite_sequence.ocr_text < MaxOcrRows
    /\ IF ForeignKeyOk(db, pdf_id)
          THEN /\ db' = InsertOcrRow(db, pdf_id, page_number, text)
               /\ ret' = [NoReturn EXCEPT !.op = "insert_image_ocr_text"]
          ELSE /\ db' = db
               /\ ret' = [NoReturn EXCEPT !.op = "insert_image_ocr_text",
                                          !.error = "IntegrityError"]
    /\ UNCHANGED <<now, ingestVars>>

\* execute_query("UPDATE pages SET text = ? WHERE id = ?", (text, id)).
update_page_text(id, text) ==
    /\ \E p \in db.pages : p.id = id
    /\ db' = UpdatePageRow(db, id, text)
    /\ ret' = [NoReturn EXCEPT !.op = "execute_query"]
    /\ UNCHANGED <<now, ingestVars>>

\* execute_query("UPDATE ocr_text SET ocr_text = ? WHERE id = ?", (text, id)).
update_ocr_text(id, text) ==
    /\ \E o \in db.ocr_text : o.id = id
    /\ db' = UpdateOcrRow(db, id, text)
    /\ ret' = [NoReturn EXCEPT !.op = "execute_query"]
    /\ UNCHANGED <<now, ingestVars>>

\* execute_query("DELETE FROM pages WHERE id = ?", (id,)).
delete_page(id) ==
    /\ \E p \in db.pages : p.id = id
    /\ db' = DeletePageRow(db, id)
    /\ ret' = [NoReturn EXCEPT !.op = "execute_query"]
    /\ UNCHANGED <<now, ingestVars>>

\* execute_query("DELETE FROM ocr_text WHERE id = ?", (id,)).
delete_ocr_text(id) ==
    /\ \E o \in db.ocr_text : o.id = id
    /\ db' = DeleteOcrRow(db, id)
    /\ ret' = [NoReturn EXCEPT !.op = "execute_query"]
    /\ UNCHANGED <<now, ingestVars>>

\* execute_query("DELETE FROM pdf_files WHERE id = ?", (id,)).
delete_pdf_file(id) ==
    /\ \E f \in db.pdf_files : f.id = id
    /\ db' = DeletePdfFileRow(db, id)
    /\ ret' = [NoReturn EXCEPT !.op = "execute_query"]
    /\ UNCHANGED <<now, ingestVars>>

(***************************************************************************)
(* utils/db.py: search_text and get_search_count.                          *)
(***************************************************************************)
Terms == {<<"'">>, <<" ">>, <<"a">>}

\* The decimal text of a number, as SQLite renders an integer column.
RECURSIVE DecimalText(_)
DecimalText(n) ==
    IF n < 10 THEN <<DigitSeq[n + 1]>>
    ELSE DecimalText(n \div 10) \o <<DigitSeq[(n % 10) + 1]>>

\* snippet(fts, 0, '<mark>', '</mark>', '...', 15): column 0 of both FTS
\* tables is pdf_id, so the snippet is that number's text.
snippet(entry) == DecimalText(entry.pdf_id)

\* One row of the search SELECT: (id, file_name, page_number, text, source,
\* last_accessed).
SearchRow(f, page_number, text, source) ==
    [id |-> f.id, file_name |-> f.file_name, page_number |-> page_number,
     text |-> text, source |-> source, last_accessed |-> f.last_accessed]

\* The UNION of the two FTS SELECTs of search_text: a set, equal rows once.
FtsSearchRows(d, sanitized) ==
    {SearchRow(x[2], x[1].page_number, snippet(x[1]), "PDF Text") :
        x \in {y \in d.fts_content \X d.pdf_files :
                  y[1].pdf_id = y[2].id /\ FtsMatch(sanitized, y[1].content)}}
    \cup
    {SearchRow(x[2], x[1].page_number, snippet(x[1]), "OCR Text") :
        x \in {y \in d.fts_ocr \X d.pdf_files :
                  y[1].pdf_id = y[2].id /\ FtsMatch(sanitized, y[1].content)}}

\* The UNION of the two LIKE SELECTs of search_text.
LikeSearchRows(d, sanitized) ==
    {SearchRow(x[2], x[1].page_number, x[1].text, "PDF Text") :
        x \in {y \in d.pages \X d.pdf_files :
                  y[1].pdf_id = y[2].id /\ LikeContains(sanitized, y[1].text)}}
    \cup
    {SearchRow(x[2], x[1].page_number, x[1].ocr_text, "OCR Text") :
        x \in {y \in d.ocr_text \X d.pdf_files :
                  y[1].pdf_id = y[2].id /\ LikeContains(sanitized, y[1].ocr_text)}}

SearchRows(d, sanitized, use_fts) ==
    IF use_fts THEN FtsSearchRows(d, sanitized) ELSE LikeSearchRows(d, sanitized)

\* ORDER BY last_accessed DESC: every arrangement of the rows in which
\* last_accessed never increases (SQLite leaves the order of ties open).
OrderByLastAccessedDesc(rows) ==
    {o \in [1..Cardinality(rows) -> rows] :
        /\ \A i, j \in DOMAIN o : i < j =>
              (o[i] # o[j] /\ o[i].last_accessed >= o[j].last_accessed)}

\* LIMIT ? alone: the offset ignored.
LimitOnly(ordered, limit, offset) ==
    SubSeq(ordered, 1, Min2(Len(ordered), limit))

\* LIMIT ? OFFSET ? for limit >= 0 and offset >= 0.
LimitOffset(ordered, limit, offset) ==
    SubSeq(ordered, offset + 1, Min2(Len(ordered), offset + limit))

\* The loop over pdf_ids = set(row[0] for row in results): one UPDATE each.
RECURSIVE UpdateLastAccessedAll(_, _, _)
UpdateLastAccessedAll(d, pdf_ids, t) ==
    IF pdf_ids = {} THEN d
    ELSE LET id == CHOOSE i \in pdf_ids : TRUE
         IN  UpdateLastAccessedAll(UpdateLastAccessed(d, id, t), pdf_ids \ {id}, t)

\* The rows search_text returns: last_accessed dropped, name and text
\* sanitized.
SanitizeResults(results) ==
    [i \in DOMAIN results |->
        <<results[i].id, sanitize_text(results[i].file_name),
          results[i].page_number, sanitize_text(results[i].text),
          results[i].source>>]

\* The body of search_text: what it does to the store and what it returns,
\* Arrangements(rows) being the orders in which the query may deliver rows.
SearchEffect(term, use_fts, limit, offset, Arrangements(_)) ==
    LET sanitized == sanitize_search_term(term)
        called == [NoReturn EXCEPT !.op = "search_text", !.term = term,
                       !.use_fts = use_fts, !.limit = limit, !.offset = offset]
    IN  IF sanitized = <<>>
           THEN db' = db /\ ret' = called
        ELSE IF use_fts /\ FtsSyntaxError(sanitized)
           \* sqlite3.OperationalError from the query: caught, [] returned
           THEN db' = db /\ ret' = [called EXCEPT !.error = "caught"]
        ELSE \E ordered \in Arrangements(SearchRows(db, sanitized, use_fts)) :
               LET results == LimitOffset(ordered, limit, offset)
               IN  /\ db' = UpdateLastAccessedAll(
                                db, {results[i].id : i \in DOMAIN results}, now)
                   /\ ret' = [called EXCEPT !.result = SanitizeResults(results)]

\* search_text(search_term, use_fts, limit, offset).
search_text(term, use_fts, limit, offset) ==
    /\ SearchEffect(term, use_fts, limit, offset, OrderByLastAccessedDesc)
    /\ UNCHANGED <<now, ingestVars>>

\* COUNT(*) over the UNION of the two FTS "SELECT 1" (no join with pdf_files).
FtsCountRows(d, sanitized) ==
    {1 : e \in {x \in d.fts_content : FtsMatch(sanitized, x.content)}}
    \cup {1 : e \in {x \in d.fts_ocr : FtsMatch(sanitized, x.content)}}

\* COUNT(*) over the UNION of the two LIKE "SELECT 1", each joined with
\* pdf_files.
LikeCountRows(d, sanitized) ==
    {1 : x \in {y \in d.pages \X d.pdf_files :
                  y[1].pdf_id = y[2].id /\ LikeContains(sanitized, y[1].text)}}
    \cup {1 : x \in {y \in d.ocr_text \X d.pdf_files :
                  y[1].pdf_id = y[2].id /\ LikeContains(sanitized, y[1].ocr_text)}}

\* A count that touches every document as a search does.
CountStoreTouching(d, sanitized, use_fts, t) ==
    [d EXCEPT !.pdf_files = {[f EXCEPT !.last_accessed = t] : f \in @}]

\* What get_search_count leaves in the store: it runs one SELECT and commits
\* nothing.
CountStore(d, sanitized, use_fts, t) == d

\* get_search_count(search_term, use_fts).
get_search_count(term, use_fts) ==
    LET sanitized == sanitize_search_term(term)
        called == [NoReturn EXCEPT !.op = "get_search_count", !.term = term,
                       !.use_fts = use_fts]
    IN  /\ UNCHANGED <<now, ingestVars>>
        /\ IF sanitized = <<>>
              THEN db' = db /\ ret' = called
           ELSE IF use_fts /\ FtsSyntaxError(sanitized)
              THEN db' = db /\ ret' = [called EXCEPT !.error = "caught"]
           ELSE /\ db' = CountStore(db, sanitized, use_fts, now)
                /\ ret' = [called EXCEPT !.count =
                              Cardinality(IF use_fts THEN FtsCountRows(db, sanitized)
                                                     ELSE LikeCountRows(db, sanitized))]

\* A second passes.
Tick ==
    /\ now < MaxTime
    /\ now' = now + 1
    /\ UNCHANGED <<db, ret, ingestVars>>

(***************************************************************************)
(* The ingestion threads and the files they are given.                     *)
(***************************************************************************)
Threads == {"t1", "t2"}
Files == {"x", "y", "bad"}

\* utils/security.py: the size ceiling of a file, in bytes.
MAX_FILE_SIZE == 100 * 1024 * 1024

\* What the file system says of a path: whether it exists, is a regular file
\* and can be opened for reading, its size in bytes, the suffix of its name and
\* its first four bytes.
Stat(size, suffix, signature) ==
    [exists |-> TRUE, is_file |-> TRUE, readable |-> TRUE, size |-> size,
     suffix |-> suffix, signature |-> signature]
PdfStat == Stat(1000, <<".", "p", "d", "f">>, "%PDF")

\* validate_file_path: the path exists, is a regular file of at most max_size
\* bytes, and one byte of it can be read.
validate_file_path(st) ==
    /\ st.exists
    /\ st.is_file
    /\ ~(st.size > MAX_FILE_SIZE)
    /\ st.readable

\* str.lower() of a suffix.
Lower(s) == [i \in DOMAIN s |-> Fold(s[i])]

\* A validation that trusts the suffix and never reads the signature.
validate_pdf_suffix(st) ==
    /\ validate_file_path(st)
    /\ Lower(st.suffix) = <<".", "p", "d", "f">>

\* validate_pdf_file: validate_file_path, the suffix is .pdf in any case, and
\* the first four bytes are %PDF.
validate_pdf_file(st) ==
    /\ validate_file_path(st)
    /\ Lower(st.suffix) = <<".", "p", "d", "f">>
    /\ st.signature = "%PDF"

\* What each file holds: its name and path, what the file system says of it,
\* and per page the text and the number of images.
\* The pages of one scanned document, kept in two files: one under the
\* streaming threshold and one over it.
ScanPages ==
    <<[text |-> <<"a", "<">>, images |-> 2], [text |-> <<"b">>, images |-> 0],
      [text |-> <<"b">>, images |-> 0], [text |-> <<"b">>, images |-> 0],
      [text |-> <<"b">>, images |-> 0], [text |-> <<"a">>, images |-> 1]>>

FileInfo ==
    [x   |-> [file_name |-> <<"d", "&">>, file_path |-> "/p/x.pdf", stat |-> PdfStat,
              pages |-> <<[text |-> <<"a", "<">>, images |-> 1]>>],
     y   |-> [file_name |-> <<"d", "&">>, file_path |-> "/p/y.pdf", stat |-> PdfStat,
              pages |-> <<[text |-> <<"b">>, images |-> 0]>>],
     bad |-> [file_name |-> <<"d", "&">>, file_path |-> "/p/bad.txt",
              stat |-> Stat(1000, <<".", "t", "x", "t">>, "%PDF"),
              pages |-> <<>>],
     z   |-> [file_name |-> <<"d", "&">>, file_path |-> "/p/z.pdf", stat |-> PdfStat,
              pages |-> <<[text |-> <<"a">>, images |-> 2],
                          [text |-> <<"b">>, images |-> 0]>>],
     upper   |-> [file_name |-> <<"d", "&">>, file_path |-> "/p/u.PDF",
                  stat |-> Stat(1000, <<".", "P", "D", "F">>, "%PDF"),
                  pages |-> <<[text |-> <<"b">>, images |-> 0]>>],
     missing |-> [file_name |-> <<"d", "&">>, file_path |-> "/p/missing.pdf",
                  stat |-> [PdfStat EXCEPT !.exists = FALSE], pages |-> <<>>],
     folder  |-> [file_name |-> <<"d", "&">>, file_path |-> "/p/folder.pdf",
                  stat |-> [PdfStat EXCEPT !.is_file = FALSE], pages |-> <<>>],
     locked  |-> [file_name |-> <<"d", "&">>, file_path |-> "/p/locked.pdf",
                  stat |-> [PdfStat EXCEPT !.readable = FALSE], pages |-> <<>>],
     huge    |-> [file_name |-> <<"d", "&">>, file_path |-> "/p/huge.pdf",
                  stat |-> Stat(MAX_FILE_SIZE + 1, <<".", "p", "d", "f">>, "%PDF"),
                  pages |-> <<[text |-> <<"b">>, images |-> 0]>>],
     zip     |-> [file_name |-> <<"d", "&">>, file_path |-> "/p/zip.pdf",
                  stat |-> Stat(1000, <<".", "p", "d", "f">>, "PK^C^D"),
                  pages |-> <<>>],
     large   |-> [file_name |-> <<"d", "&">>, file_path |-> "/p/large.pdf",
                  stat |-> Stat(60 * 1024 * 1024, <<".", "p", "d", "f">>, "%PDF"),
                  pages |-> <<[text |-> <<"a">>, images |-> 1],
                              [text |-> <<"b">>, images |-> 0],
                              [text |-> <<"b">>, images |-> 0],
                              [text |-> <<"b">>, images |-> 0],
                              [text |-> <<"b">>, images |-> 0],
                              [text |-> <<"b">>, images |-> 0]>>],
     renamed |-> [file_name |-> <<"e">>, file_path |-> "/p/large.pdf",
                  stat |-> Stat(60 * 1024 * 1024, <<".", "p", "d", "f">>, "%PDF"),
                  pages |-> <<[text |-> <<"a">>, images |-> 1],
                              [text |-> <<"b">>, images |-> 0],
                              [text |-> <<"b">>, images |-> 0],
                              [text |-> <<"b">>, images |-> 0],
                              [text |-> <<"b">>, images |-> 0],
                              [text |-> <<"b">>, images |-> 0]>>],
     scan    |-> [file_name |-> <<"s">>, file_path |-> "/p/scan.pdf", stat |-> PdfStat,
                  pages |-> ScanPages],
     bigscan |-> [file_name |-> <<"s">>, file_path |-> "/q/scan.pdf",
                  stat |-> Stat(60 * 1024 * 1024, <<".", "p", "d", "f">>, "%PDF"),
                  pages |-> ScanPages]]

\* is_large_pdf: the file is over threshold_mb megabytes.
threshold_mb == 50
is_large_pdf(st) == st.size > threshold_mb * 1024 * 1024

\* What the OCR engine may read from an image: nothing, or some text.
OcrOutcomes == {<<>>, <<"b", "&">>}

NoJob == [file |-> "none", pdf_id |-> 0, page |-> 0, image |-> 0, cached_ocr |-> <<>>]

\* utils/cache.py: the keys and values the caches are exercised with.
Keys == {"k1", "k2", "k3"}
Values == {"v1", "v2"}
None == "None"

\* No cache object has been constructed; no put has been made.
NoCache == [class |-> "none"]
NoPut == [value |-> None, live |-> FALSE, expires |-> -1]
\* The keys of the caches that are filled beyond three entries.
PressureKeys == Keys \cup {"k4"}
NoPuts == [k \in PressureKeys |-> NoPut]

\* core/ocr/tesseract.py, __init__: no temporary directory is listed in
\* _temp_dirs; `fs` is the set of temporary directories that exist on disk,
\* `made` counts the directories made so far, `user_file` says whether the
\* caller's own image file still exists.
TesseractOCRProcessor(skip_large_images) ==
    [skip_large_images |-> skip_large_images, temp_dirs |-> {}, fs |-> {},
     made |-> 0, user_file |-> TRUE, calls |-> [t \in Threads |-> 0]]

\* No search is being paged through.
\* No process_folder call yet: no pool, nothing found, nothing submitted.
NoBatch ==
    [status |-> "idle", max_workers |-> 0, found |-> {}, queue |-> <<>>,
     submitted |-> <<>>, outcome |-> <<>>, collected |-> {}, logged |-> {}]

\* No document has been handed to the OCR engine.
NoEngine == <<>>

\* What search_cache.get hands back: None, a count or a list of rows.
NoValue == [kind |-> "None"]
IntValue(n) == [kind |-> "int", n |-> n]
ListValue(rows) == [kind |-> "list", rows |-> rows]

\* SearchApp.__init__: no search made, no search_db thread, no callback
\* waiting in the event loop.  `tree` is the rows shown; `search_term` and
\* `cached_count_value` are the locals search_db closes over; `queried` says
\* whether the last load_search_results called search_text, `started` counts
\* the searches started.
SearchApp ==
    [search_in_progress |-> FALSE, current_search_term |-> <<>>, current_page |-> 0,
     use_fts |-> TRUE, total_results |-> 0, tree |-> <<>>,
     workers |-> 0, search_term |-> <<>>, cached_count_value |-> NoValue,
     events |-> <<>>, queried |-> FALSE, started |-> 0]

\* MemoryCheck.__init__: self.running = False, self.thread = None.  `loops`
\* lists the _check_loop threads ever started, by position; `at` is where the
\* caller of start() and stop() stands, `joined` the thread stop() joins.
MemoryCheck ==
    [running |-> FALSE, thread |-> 0, loops |-> <<>>, at |-> "idle", joined |-> 0]

NoPager ==
    [status |-> "idle", term |-> <<>>, use_fts |-> FALSE, limit |-> 0, offset |-> 0,
     matches |-> {}, seen |-> <<>>]

Init ==
    /\ db = create_database
    /\ now = 0
    /\ ret = NoReturn
    /\ pc = [t \in Threads |-> "idle"]
    /\ job = [t \in Threads |-> NoJob]
    /\ image_cache = <<>>
    /\ pdf_cache = {}
    /\ completed = {}
    /\ overlap = {}
    /\ pager = NoPager
    /\ cache = NoCache
    /\ puts = NoPuts
    /\ ocr = TesseractOCRProcessor(TRUE)
    /\ batch = NoBatch
    /\ engine = NoEngine
    /\ window = SearchApp
    /\ checker = MemoryCheck

(***************************************************************************)
(* The store under the statements its schema serves.                       *)
(***************************************************************************)
Next ==
    \/ \E n \in FileNames, p \in FilePaths : insert_pdf_file(n, p)
    \/ \E id \in PdfIds, pg \in PageNumbers, t \in Texts : insert_page_text(id, pg, t)
    \/ \E id \in PdfIds, pg \in PageNumbers : insert_image_metadata(id, pg, "image", "png")
    \/ \E id \in PdfIds, pg \in PageNumbers, t \in Texts : insert_image_ocr_text(id, pg, t)
    \/ \E id \in PageRowIds, t \in Texts : update_page_text(id, t)
    \/ \E id \in OcrRowIds, t \in Texts : update_ocr_text(id, t)
    \/ \E id \in PageRowIds : delete_page(id)
    \/ \E id \in OcrRowIds : delete_ocr_text(id)
    \/ \E id \in PdfIds : delete_pdf_file(id)

Spec == Init /\ [][Next]_vars

(***************************************************************************)
(* Claims on the store, checked under Spec.                                *)
(***************************************************************************)
\* C3: insert_pdf_file called with a (file_name, file_path) pair that already
\* has a pdf_files row raises a duplicate-document error and leaves the store
\* unchanged.
C3_DuplicateInsertFails ==
    [][\A n \in FileNames, p \in FilePaths :
          (is_pdf_processed(db, PDFMetadata(n, p)) /\ insert_pdf_file(n, p))
              => (ret'.error # "none" /\ db' = db)]_vars

\* The rows of a text table and the entries of its FTS table correspond one to
\* one: each (document id, page number, text) occurs equally often in both.
MirrorsOneToOne(rows, entries) ==
    /\ Cardinality(rows) = Cardinality(entries)
    /\ \A r \in rows :
          Cardinality({q \in rows : q.pdf_id = r.pdf_id /\ q.page_number = r.page_number
                                    /\ q.text = r.text})
            = Cardinality({e \in entries : e.pdf_id = r.pdf_id
                                    /\ e.page_number = r.page_number
                                    /\ e.content = r.text})

\* C4: in every committed state fts_content mirrors pages and fts_ocr mirrors
\* ocr_text one to one, with equal (document id, page number, text).
C4_IndexMirrorsText ==
    /\ MirrorsOneToOne(db.pages, db.fts_content)
    /\ MirrorsOneToOne({[pdf_id |-> o.pdf_id, page_number |-> o.page_number,
                         text |-> o.ocr_text, id |-> o.id] : o \in db.ocr_text},
                       db.fts_ocr)

\* C5: every pages, images and ocr_text row and every full-text entry refers
\* to an existing pdf_files row; ids are never reused, so once a pdf_files row
\* is deleted nothing with its id remains.
C5_NoOrphans ==
    \A r \in db.pages \cup db.images \cup db.ocr_text \cup db.fts_content \cup db.fts_ocr :
        ForeignKeyOk(db, r.pdf_id)

\* C5 witness: document 1 was deleted with an image row of its own (images
\* rows leave only by the cascade) while document 2 keeps its rows.
C5_Witness ==
    /\ {f.id : f \in db.pdf_files} = {2}
    /\ db.sqlite_sequence.images = 1 /\ db.images = {}
    /\ db.sqlite_sequence.ocr_text = 2
    /\ \E o \in db.ocr_text : o.pdf_id = 2
    /\ \E e \in db.fts_ocr : e.pdf_id = 2

(***************************************************************************)
(* The store filled through its insert methods, searched and counted.      *)
(***************************************************************************)
\* The store filled through its insert methods.
FillStore ==
    \/ \E n \in FileNames, p \in FilePaths :
          ~is_pdf_processed(db, PDFMetadata(n, p)) /\ insert_pdf_file(n, p)
    \/ \E f \in db.pdf_files, pg \in 1..MaxSearchPage, t \in Texts :
          insert_page_text(f.id, pg, t)
    \/ \E f \in db.pdf_files, pg \in 1..MaxSearchPage, t \in Texts :
          /\ db.sqlite_sequence.ocr_text < MaxSearchOcrRows
          /\ insert_image_ocr_text(f.id, pg, t)

NextSearch ==
    \/ FillStore
    \/ Tick
    \/ \E term \in Terms, use_fts \in BOOLEAN, limit \in 0..MaxLimit, offset \in 0..MaxOffset :
          search_text(term, use_fts, limit, offset)
    \/ \E term \in Terms, use_fts \in BOOLEAN : get_search_count(term, use_fts)

SpecSearch == Init /\ [][NextSearch]_vars

\* The rows search_text may return for rs, the rows the query selected.
Projection(rs) ==
    [i \in DOMAIN rs |->
        <<rs[i].id, sanitize_text(rs[i].file_name), rs[i].page_number,
          sanitize_text(rs[i].text), rs[i].source>>]

\* result is the window offset+1 .. offset+limit of an arrangement of matches
\* by last_accessed descending: its rows are distinct matches in descending
\* order, exactly offset of the other matches rank before them, the rest
\* after, and it is as long as the matches left after the offset allow.
IsWindow(result, matches, limit, offset) ==
    /\ Len(result) <= limit
    /\ Len(result) = Min2(limit, Max({0, Cardinality(matches) - offset}))
    /\ \E rs \in [1..Len(result) -> matches] :
          /\ result = Projection(rs)
          /\ \A i, j \in DOMAIN rs : i < j =>
                (rs[i] # rs[j] /\ rs[i].last_accessed >= rs[j].last_accessed)
          /\ \E before \in SUBSET (matches \ Range(rs)) :
                /\ Cardinality(before) = Min2(offset, Cardinality(matches))
                /\ \A b \in before, r \in Range(rs) : b.last_accessed >= r.last_accessed
                /\ \A a \in (matches \ Range(rs)) \ before :
                      /\ \A r \in Range(rs) : a.last_accessed <= r.last_accessed
                      /\ \A b \in before : a.last_accessed <= b.last_accessed

\* The calls whose query runs: the sanitized term is not empty and, with
\* use_fts, FTS5 accepts it.
QueryRuns(term, use_fts) ==
    /\ sanitize_search_term(term) # <<>>
    /\ ~(use_fts /\ FtsSyntaxError(sanitize_search_term(term)))

\* C6: search_text returns the union of the PDF-text and OCR-text matches
\* ordered by last_accessed descending (its value before the call), cut to
\* positions offset .. offset+limit-1, and never more than limit rows.  ret'
\* records the arguments of the call the step makes.
C6_SearchWindow ==
    [][(/\ search_text(ret'.term, ret'.use_fts, ret'.limit, ret'.offset)
        /\ QueryRuns(ret'.term, ret'.use_fts))
          => IsWindow(ret'.result,
                      SearchRows(db, sanitize_search_term(ret'.term), ret'.use_fts),
                      ret'.limit, ret'.offset)]_vars

\* C6 witness: a search returned two rows of two different documents, the
\* later document first.
C6_Witness ==
    /\ ret.op = "search_text"
    /\ Len(ret.result) = 2
    /\ ret.result[1][1] > ret.result[2][1]

\* C7: after search_text returns a non-empty result, every document in the
\* returned rows has last_accessed equal to the current time.
C7_ReturnedDocumentsTouched ==
    [][(/\ search_text(ret'.term, ret'.use_fts, ret'.limit, ret'.offset)
        /\ ret'.result # <<>>)
          => \A i \in DOMAIN ret'.result : \A f \in db'.pdf_files :
                f.id = ret'.result[i][1] => f.last_accessed = now]_vars

\* C7 witness: a search at time 1 returned rows of a document stored at time
\* 0, which now carries time 1, while another document still carries time 0.
C7_Witness ==
    /\ ret.op = "search_text" /\ ret.result # <<>> /\ now = 1
    /\ \E f, g \in db.pdf_files :
          /\ f.created_at = 0 /\ f.last_accessed = 1
          /\ \E i \in DOMAIN ret.result : ret.result[i][1] = f.id
          /\ g.last_accessed = 0
          /\ \A i \in DOMAIN ret.result : ret.result[i][1] # g.id

\* C8: get_search_count leaves the whole store as it was, for every term and
\* either value of use_fts.
C8_CountLeavesStore ==
    [][get_search_count(ret'.term, ret'.use_fts) => db' = db]_vars

\* C8 witness: a count found matches at time 1 in a store whose documents
\* still carry time 0.
C8_Witness ==
    /\ ret.op = "get_search_count" /\ ret.count > 0 /\ now = 1
    /\ db.pdf_files # {}
    /\ \A f \in db.pdf_files : f.last_accessed = 0

\* C9: get_search_count(term, use_fts) equals the number of rows search_text
\* yields for the same term and mode over all offsets on the same store.
C9_CountEqualsSearchTotal ==
    [][(/\ get_search_count(ret'.term, ret'.use_fts)
        /\ QueryRuns(ret'.term, ret'.use_fts))
          => ret'.count =
               Cardinality(SearchRows(db, sanitize_search_term(ret'.term),
                                      ret'.use_fts))]_vars

\* A term is blank when it is empty or made of whitespace only.
Blank(term) == Range(term) \subseteq Whitespace

\* C10: when the sanitized term is empty or whitespace only, search_text
\* returns the empty list and get_search_count returns 0, in either mode,
\* and the store is not touched.
C10_BlankTermFindsNothing ==
    [][Blank(sanitize_search_term(ret'.term)) =>
          /\ search_text(ret'.term, ret'.use_fts, ret'.limit, ret'.offset)
                => (ret'.result = <<>> /\ db' = db)
          /\ get_search_count(ret'.term, ret'.use_fts)
                => (ret'.count = 0 /\ db' = db)]_vars

(***************************************************************************)
(* core/pdf_processor.py: process_pdf, run by worker-pool threads and by   *)
(* the threads the main window starts.  Every store call is a transaction  *)
(* of its own, so the threads interleave between the calls.  The files are *)
(* small ones: process_pdf takes its non-streaming branch.                 *)
(***************************************************************************)
Running == {"check", "insert", "page", "image", "ocr", "spage", "simage", "scached", "socr"}

\* Where a thread goes after the images of its current page: the next page,
\* or the end of process_pdf.
AfterPage(t) ==
    IF job[t].page < Len(FileInfo[job[t].file].pages)
       THEN /\ pc' = [pc EXCEPT ![t] = "page"]
            /\ job' = [job EXCEPT ![t].page = @ + 1, ![t].image = 0]
            /\ UNCHANGED completed
       ELSE /\ pc' = [pc EXCEPT ![t] = "done"]
            /\ job' = job
            /\ completed' = completed \cup {job[t].file}

\* process_pdf(metadata) is called: the two validations, ValueError raised
\* when either rejects the file.
process_pdf_call(t, f) ==
    /\ pc[t] \notin Running
    /\ job' = [job EXCEPT ![t] = [NoJob EXCEPT !.file = f]]
    /\ pc' = [pc EXCEPT ![t] = IF validate_file_path(FileInfo[f].stat) /\ validate_pdf_file(FileInfo[f].stat)
                                  THEN "check" ELSE "raised"]
    /\ overlap' = IF \E u \in Threads \ {t} : pc[u] \in Running /\ job[u].file = f
                     THEN overlap \cup {f} ELSE overlap
    /\ UNCHANGED <<db, now, ret, image_cache, pdf_cache, completed, clientVars>>

\* if self.db.is_pdf_processed(metadata): return
process_pdf_check(t) ==
    LET info == FileInfo[job[t].file]
    IN  /\ pc[t] = "check"
        /\ pc' = [pc EXCEPT ![t] =
                    IF is_pdf_processed(db, PDFMetadata(info.file_name, info.file_path))
                       THEN "skipped" ELSE "insert"]
        /\ UNCHANGED <<db, now, ret, job, image_cache, pdf_cache, completed, overlap, clientVars>>

\* pdf_id = self.db.insert_pdf_file(metadata); then, for a file that is not
\* large, the file is opened and pdf_cache.put(metadata.file_path, ...).
process_pdf_insert(t) ==
    LET info == FileInfo[job[t].file]
        metadata == PDFMetadata(info.file_name, info.file_path)
    IN  /\ pc[t] = "insert"
        /\ ~is_large_pdf(info.stat)
        /\ db' = InsertPdfFileRow(db, metadata.file_name, metadata.file_path, now)
        /\ pdf_cache' = pdf_cache \cup {info.file_path}
        /\ IF info.pages = <<>>
              THEN /\ pc' = [pc EXCEPT ![t] = "done"]
                   /\ job' = [job EXCEPT ![t].pdf_id = db'.sqlite_sequence.pdf_files]
                   /\ completed' = completed \cup {job[t].file}
              ELSE /\ pc' = [pc EXCEPT ![t] = "page"]
                   /\ job' = [job EXCEPT ![t].pdf_id = db'.sqlite_sequence.pdf_files,
                                         ![t].page = 1]
                   /\ UNCHANGED completed
        /\ UNCHANGED <<now, ret, image_cache, overlap, clientVars>>

\* text = sanitize_text(extract_text_from_page(page));
\* self.db.insert_page_text(pdf_id, page_number, text)
process_pdf_page(t) ==
    LET page == FileInfo[job[t].file].pages[job[t].page]
    IN  /\ pc[t] = "page"
        /\ ForeignKeyOk(db, job[t].pdf_id)
        /\ db' = InsertPageRow(db, job[t].pdf_id, job[t].page, sanitize_text(page.text))
        /\ IF page.images > 0
              THEN /\ pc' = [pc EXCEPT ![t] = "image"]
                   /\ job' = [job EXCEPT ![t].image = 1]
                   /\ UNCHANGED completed
              ELSE AfterPage(t)
        /\ UNCHANGED <<now, ret, image_cache, pdf_cache, overlap, clientVars>>

\* self.db.insert_image_metadata(pdf_id, page_number, image_name, img['ext'])
process_pdf_image(t) ==
    /\ pc[t] = "image"
    /\ ForeignKeyOk(db, job[t].pdf_id)
    /\ db' = InsertImageRow(db, job[t].pdf_id, job[t].page, "image", "png")
    /\ pc' = [pc EXCEPT ![t] = "ocr"]
    /\ UNCHANGED <<now, ret, job, image_cache, pdf_cache, completed, overlap, clientVars>>

\* ocr_text = process_image_bytes(...); if ocr_text: insert_image_ocr_text of
\* the sanitized text and image_cache.put(image_key, sanitized_ocr_text).
process_pdf_ocr_result(t, ocr_text) ==
    LET info == FileInfo[job[t].file]
        image_key == <<info.file_path, job[t].page, job[t].image>>
    IN  /\ pc[t] = "ocr"
        /\ ForeignKeyOk(db, job[t].pdf_id)
        /\ IF ocr_text # <<>>
              THEN /\ db' = InsertOcrRow(db, job[t].pdf_id, job[t].page,
                                         sanitize_text(ocr_text))
                   /\ image_cache' = (image_key :> sanitize_text(ocr_text)) @@ image_cache
              ELSE UNCHANGED <<db, image_cache>>
        /\ IF job[t].image < info.pages[job[t].page].images
              THEN /\ pc' = [pc EXCEPT ![t] = "image"]
                   /\ job' = [job EXCEPT ![t].image = @ + 1]
                   /\ UNCHANGED completed
              ELSE AfterPage(t)
        /\ UNCHANGED <<now, ret, pdf_cache, overlap, clientVars>>

\* The OCR engine reads nothing, or some text.
process_pdf_ocr(t) == \E ocr_text \in OcrOutcomes : process_pdf_ocr_result(t, ocr_text)

NextIngest ==
    \/ \E t \in Threads, f \in Files : process_pdf_call(t, f)
    \/ \E t \in Threads : process_pdf_check(t)
    \/ \E t \in Threads : process_pdf_insert(t)
    \/ \E t \in Threads : process_pdf_page(t)
    \/ \E t \in Threads : process_pdf_image(t)
    \/ \E t \in Threads : process_pdf_ocr(t)

SpecIngest == Init /\ [][NextIngest]_vars

\* The pdf_files rows of a file's (file_name, file_path) pair.
RowsOf(f) ==
    {r \in db.pdf_files :
        /\ r.file_name = PDFMetadata(FileInfo[f].file_name, FileInfo[f].file_path).file_name
        /\ r.file_path = FileInfo[f].file_path}

\* C1: when process_pdf runs again for a file whose earlier run completed, in
\* sequence, the pair has exactly one pdf_files row, and the new run is
\* skipped at its check: no error, nothing written to the store.
C1_SecondRunSkipped ==
    /\ [](\A f \in completed \ overlap : Cardinality(RowsOf(f)) = 1)
    /\ [][\A t \in Threads :
            (process_pdf_check(t) /\ job[t].file \in completed)
                => (pc'[t] = "skipped" /\ db' = db)]_vars

\* C1 witness: a second run of file x, whose runs never overlapped, has been
\* skipped; the store holds the one document with its page, image and OCR rows.
C1_Witness ==
    /\ "x" \in completed \ overlap
    /\ \E t \in Threads : pc[t] = "skipped" /\ job[t].file = "x"
    /\ Cardinality(db.pdf_files) = 1
    /\ Cardinality(db.pages) = 1 /\ Cardinality(db.images) = 1
    /\ Cardinality(db.ocr_text) = 1 /\ Cardinality(db.fts_ocr) = 1

\* C2: in every reachable state, whatever the interleaving of concurrent
\* process_pdf calls, there is at most one pdf_files row per
\* (file_name, file_path) pair.
C2_OneRowPerPair ==
    \A r, q \in db.pdf_files :
        (r.file_name = q.file_name /\ r.file_path = q.file_path) => r = q

(***************************************************************************)
(* utils/db.py: search_text and get_search_count when a store call raises. *)
(* execute_query lets sqlite3 exceptions through (a locked database, a     *)
(* corrupt file, ...); both methods wrap their calls in                    *)
(* "except sqlite3.Error".                                                 *)
(***************************************************************************)
\* The exception classes a store call may raise: all derive from
\* sqlite3.Error.
StorageErrors == {"sqlite3.OperationalError", "sqlite3.DatabaseError"}

\* A handler that names sqlite3.OperationalError only.
CaughtIfOperational(exc) == exc = "sqlite3.OperationalError"

\* except sqlite3.Error: the classes the handler of both methods catches.
CaughtBySqlite3Error(exc) ==
    exc \in {"sqlite3.Error", "sqlite3.DatabaseError", "sqlite3.OperationalError",
             "sqlite3.IntegrityError", "sqlite3.ProgrammingError",
             "sqlite3.InterfaceError"}

\* search_text in which a store call raises exc: the query itself, or one
\* UPDATE of the last_accessed loop after the UPDATEs of the documents in
\* touched have been committed.
search_text_raising(term, use_fts, limit, offset, exc) ==
    LET sanitized == sanitize_search_term(term)
        called == [NoReturn EXCEPT !.op = "search_text", !.term = term,
                       !.use_fts = use_fts, !.limit = limit, !.offset = offset]
    IN  /\ QueryRuns(term, use_fts)
        /\ UNCHANGED <<now, ingestVars>>
        /\ \/ db' = db
           \/ \E ordered \in OrderByLastAccessedDesc(SearchRows(db, sanitized, use_fts)) :
                LET results == LimitOffset(ordered, limit, offset)
                    pdf_ids == {results[i].id : i \in DOMAIN results}
                IN  \E touched \in SUBSET pdf_ids :
                       /\ touched # pdf_ids
                       /\ db' = UpdateLastAccessedAll(db, touched, now)
        /\ ret' = IF CaughtBySqlite3Error(exc)
                     THEN [called EXCEPT !.error = "caught"]
                     ELSE [called EXCEPT !.error = exc]

\* get_search_count in which the query raises exc.
get_search_count_raising(term, use_fts, exc) ==
    LET called == [NoReturn EXCEPT !.op = "get_search_count", !.term = term,
                       !.use_fts = use_fts]
    IN  /\ QueryRuns(term, use_fts)
        /\ UNCHANGED <<now, ingestVars>>
        /\ db' = CountStore(db, sanitize_search_term(term), use_fts, now)
        /\ ret' = IF CaughtBySqlite3Error(exc)
                     THEN [called EXCEPT !.error = "caught"]
                     ELSE [called EXCEPT !.error = exc]

NextSearchRaising ==
    \/ FillStore
    \/ Tick
    \/ \E term \in Terms, use_fts \in BOOLEAN, limit \in 0..MaxLimit,
          offset \in 0..MaxOffset, exc \in StorageErrors :
          search_text_raising(term, use_fts, limit, offset, exc)
    \/ \E term \in Terms, use_fts \in BOOLEAN, exc \in StorageErrors :
          get_search_count_raising(term, use_fts, exc)

SpecSearchRaising == Init /\ [][NextSearchRaising]_vars

threadVars == <<pc, job, image_cache, pdf_cache, completed, overlap>>

PagingText == <<"a", " ", "b">>

\* r comes before q among rows of equal last_accessed in the order SQLite
\* delivers the rows of the UNION: by document id, then page number, then,
\* for equal text, by source.
Precedes(r, q) ==
    \/ r.id < q.id
    \/ /\ r.id = q.id
       /\ \/ r.page_number < q.page_number
          \/ /\ r.page_number = q.page_number /\ r.text = q.text
             /\ r.source = "OCR Text" /\ q.source = "PDF Text"

\* ORDER BY last_accessed DESC with the ties broken that way.
StableArrangements(rows) ==
    {o \in OrderByLastAccessedDesc(rows) :
        \A i, j \in DOMAIN o :
            (i < j /\ o[i].last_accessed = o[j].last_accessed) => ~Precedes(o[j], o[i])}

\* The client starts paging: it is to see each of the rows that match now.
start_paging(term, use_fts, limit) ==
    LET matches == Range(SanitizeResults(
                       CHOOSE o \in OrderByLastAccessedDesc(
                           SearchRows(db, sanitize_search_term(term), use_fts)) : TRUE))
    IN  /\ pager.status = "idle"
        /\ QueryRuns(term, use_fts)
        /\ pager' = [status |-> IF matches = {} THEN "done" ELSE "paging",
                     term |-> term, use_fts |-> use_fts, limit |-> limit, offset |-> 0,
                     matches |-> matches, seen |-> <<>>]
        /\ UNCHANGED <<db, now, ret, threadVars, cache, puts, ocr, batch, engine, window, checker>>

\* load_search_results for the current page, then on to the next page.
load_search_results ==
    /\ pager.status = "paging"
    /\ SearchEffect(pager.term, pager.use_fts, pager.limit, pager.offset,
                    StableArrangements)
    /\ pager' = [pager EXCEPT
                    !.seen = @ \o ret'.result,
                    !.offset = @ + pager.limit,
                    !.status = IF pager.offset + pager.limit >= Cardinality(pager.matches)
                                  THEN "done" ELSE "paging"]
    /\ UNCHANGED <<now, threadVars, cache, puts, ocr, batch, engine, window, checker>>

NextPaging ==
    \/ /\ pager.status = "idle"
       /\ \/ \E n \in FileNames, p \in FilePaths :
                ~is_pdf_processed(db, PDFMetadata(n, p)) /\ insert_pdf_file(n, p)
          \/ \E f \in db.pdf_files : insert_page_text(f.id, 1, PagingText)
          \/ \E f \in db.pdf_files : insert_image_ocr_text(f.id, 1, PagingText)
    \/ Tick
    \/ \E use_fts \in BOOLEAN, limit \in 1..MaxLimit : start_paging(<<"a">>, use_fts, limit)
    \/ load_search_results

SpecPaging == Init /\ [][NextPaging]_vars

\* C12: paging through a search with offset 0, L, 2L, ... and no other write
\* in between returns as many rows as matched at the start and every
\* matching row exactly once.
C12_PagingSeesEachRowOnce ==
    pager.status = "done" =>
        /\ Len(pager.seen) = Cardinality(pager.matches)
        /\ Range(pager.seen) = pager.matches

(***************************************************************************)
(* The two modes of search_text on one store: texts in which the term is a *)
(* whole word, and texts that merely contain it.                           *)
(***************************************************************************)
\* limit: int = 100, the default of search_text.
DEFAULT_LIMIT == 100

ModeTexts == {<<"a">>, <<"b", "a">>, <<"b">>}

\* term is a whole word of some stored page text or OCR text.
WholeWordStored(term) ==
    \/ \E p \in db.pages : \E i \in DOMAIN Tokenize(p.text) : Tokenize(p.text)[i] = term
    \/ \E o \in db.ocr_text :
          \E i \in DOMAIN Tokenize(o.ocr_text) : Tokenize(o.ocr_text)[i] = term

NextModes ==
    \/ \E n \in FileNames, p \in FilePaths :
          ~is_pdf_processed(db, PDFMetadata(n, p)) /\ insert_pdf_file(n, p)
    \/ \E f \in db.pdf_files, t \in ModeTexts : insert_page_text(f.id, 1, t)
    \/ \E f \in db.pdf_files, t \in ModeTexts : insert_image_ocr_text(f.id, 1, t)
    \/ \E term \in {<<"a">>, <<"b">>}, use_fts \in BOOLEAN :
          search_text(term, use_fts, DEFAULT_LIMIT, 0)

SpecModes == Init /\ [][NextModes]_vars

\* C13: for a term that is a whole word of a stored text, search_text finds
\* the same set of documents with use_fts as without: the documents a call
\* returns are those the other mode's query selects on the same store.
C13_ModesAgreeOnDocuments ==
    [][(/\ search_text(ret'.term, ret'.use_fts, ret'.limit, ret'.offset)
        /\ WholeWordStored(ret'.term))
          => {ret'.result[i][1] : i \in DOMAIN ret'.result}
               = {r.id : r \in SearchRows(db, sanitize_search_term(ret'.term),
                                          ~ret'.use_fts)}]_vars

(***************************************************************************)
(* utils/cache.py.  Every public method of the caches runs its whole body   *)
(* under the object's RLock, so each is one atomic step whichever thread    *)
(* calls it.  A dict is a sequence of entries in insertion order, which is  *)
(* the order min() and sorted() break ties by.  The hit and eviction        *)
(* counters of `stats` feed no decision and are left out.                   *)
(***************************************************************************)
MaxCapacity == 2
MaxClock == 2
MaxTtl == 1

\* Everything a cache method leaves alone besides the clock.
cacheFrame == <<db, pc, job, image_cache, pdf_cache, completed, overlap, pager, ocr, batch, engine, window, checker>>

KeysOf(d) == {d[i].key : i \in DOMAIN d}
Entry(d, k) == d[CHOOSE i \in DOMAIN d : d[i].key = k]
DictDel(d, ks) == SelectSeq(d, LAMBDA e : e.key \notin ks)
\* dict.setdefault: an existing key keeps its entry.
DictSetDefault(d, e) == IF e.key \in KeysOf(d) THEN d ELSE Append(d, e)
\* d[key] = entry: an existing key keeps its position and takes the new entry.
DictSet(d, e) ==
    IF e.key \in KeysOf(d)
    THEN [i \in DOMAIN d |-> IF d[i].key = e.key THEN e ELSE d[i]]
    ELSE Append(d, e)

\* min(items, key=stamp) and sorted(items, key=stamp)[0]: the first entry, in
\* dict order, whose stamp is least.
FirstOldest(d, Stamp(_)) ==
    CHOOSE i \in DOMAIN d :
        /\ \A j \in DOMAIN d : Stamp(d[i]) <= Stamp(d[j])
        /\ \A j \in 1..(i - 1) : Stamp(d[j]) > Stamp(d[i])

\* time.time() moves on.
Sleep ==
    /\ now < MaxClock
    /\ now' = now + 1
    /\ UNCHANGED <<db, ret, ingestVars>>

\* The history of puts after a put of (k, v) that evicted the keys `gone`.
RecordPut(k, v, expires, gone) ==
    [x \in DOMAIN puts |->
        IF x = k THEN [value |-> v, live |-> TRUE, expires |-> expires]
        ELSE IF x \in gone THEN [puts[x] EXCEPT !.live = FALSE]
        ELSE puts[x]]
RecordClear == [x \in DOMAIN puts |-> [puts[x] EXCEPT !.live = FALSE]]

\* What a cache call hands back, with the keys it evicted on the way.
Returned(op, k, v, gone) == [op |-> op, key |-> k, value |-> v, evicted |-> gone]

(***************************************************************************)
(* MemoryAwareLRUCache                                                     *)
(***************************************************************************)
getsizeof(value) == IF value = "v1" THEN 1 ELSE 2

\* psutil.virtual_memory() as the cache reads it: percent against
\* max_memory_percent, available against min_free_memory_bytes (ratio is
\* 100 * (1 - available / min_free_memory_bytes)), or an exception.
MemoryReadings ==
    {[error |-> TRUE, percent_high |-> FALSE, available_low |-> FALSE, ratio |-> 0],
     [error |-> FALSE, percent_high |-> FALSE, available_low |-> FALSE, ratio |-> 0],
     [error |-> FALSE, percent_high |-> TRUE, available_low |-> TRUE, ratio |-> 100],
     [error |-> FALSE, percent_high |-> FALSE, available_low |-> TRUE, ratio |-> 0],
     [error |-> FALSE, percent_high |-> FALSE, available_low |-> TRUE, ratio |-> 100]}

evict_nothing(d) == d
\* Eviction of the entry that was inserted first, whenever it was last read.
evict_first(d) == IF d = <<>> THEN d ELSE DictDel(d, {d[1].key})
evict_lru(d) ==
    IF d = <<>> THEN d
    ELSE DictDel(d, {d[FirstOldest(d, LAMBDA e : e.timestamp)].key})

RECURSIVE evict_by_count(_, _)
evict_by_count(d, count) ==
    IF d = <<>> \/ count <= 0 THEN d
    ELSE evict_by_count(evict_lru(d), count - 1)

check_memory_pressure(d, memory) ==
    IF memory.error THEN d
    ELSE IF memory.percent_high
    THEN evict_by_count(d, Max({1, Len(d) \div 4}))
    ELSE IF memory.available_low
    THEN evict_by_count(d, Max({1, (Len(d) * memory.ratio) \div 200}))
    ELSE d

MemoryAwareLRUCache(max_size) ==
    [class |-> "MemoryAwareLRUCache", max_size |-> max_size, cache |-> <<>>]

MemoryAwareLRUCache_get(key) ==
    /\ cache.class = "MemoryAwareLRUCache"
    /\ IF key \in KeysOf(cache.cache)
       THEN LET e == Entry(cache.cache, key)
            IN /\ cache' = [cache EXCEPT
                              !.cache = DictSet(@, [e EXCEPT !.timestamp = now])]
               /\ ret' = Returned("get", key, e.value, {})
       ELSE /\ cache' = cache
            /\ ret' = Returned("get", key, None, {})
    /\ UNCHANGED <<now, puts, cacheFrame>>

MemoryAwareLRUCache_put(key, value, memory) ==
    /\ cache.class = "MemoryAwareLRUCache"
    /\ LET relieved == check_memory_pressure(cache.cache, memory)
           room == IF Len(relieved) >= cache.max_size /\ key \notin KeysOf(relieved)
                   THEN evict_lru(relieved)
                   ELSE relieved
           gone == KeysOf(cache.cache) \ KeysOf(room)
       IN /\ cache' = [cache EXCEPT
                         !.cache = DictSet(room, [key |-> key, value |-> value,
                                                  timestamp |-> now,
                                                  size |-> getsizeof(value)])]
          /\ puts' = RecordPut(key, value, -1, gone)
          /\ ret' = Returned("put", key, value, gone)
    /\ UNCHANGED <<now, cacheFrame>>

MemoryAwareLRUCache_clear ==
    /\ cache.class = "MemoryAwareLRUCache"
    /\ cache' = [cache EXCEPT !.cache = <<>>]
    /\ puts' = RecordClear
    /\ ret' = Returned("clear", None, None, {})
    /\ UNCHANGED <<now, cacheFrame>>

(***************************************************************************)
(* SearchResultCache                                                       *)
(***************************************************************************)
SearchResultCache(max_size, ttl) ==
    [class |-> "SearchResultCache", max_size |-> max_size, ttl |-> ttl,
     cache |-> <<>>]

SearchResultCache_get(search_term) ==
    /\ cache.class = "SearchResultCache"
    /\ IF search_term \notin KeysOf(cache.cache)
       THEN /\ cache' = cache
            /\ ret' = Returned("get", search_term, None, {})
       ELSE LET e == Entry(cache.cache, search_term)
            IN IF now - e.timestamp > cache.ttl
               THEN /\ cache' = [cache EXCEPT !.cache = DictDel(@, {search_term})]
                    /\ ret' = Returned("get", search_term, None, {})
               ELSE /\ cache' = cache
                    /\ ret' = Returned("get", search_term, e.value, {})
    /\ UNCHANGED <<now, puts, cacheFrame>>

SearchResultCache_put(search_term, results) ==
    /\ cache.class = "SearchResultCache"
    /\ LET room == IF /\ Len(cache.cache) >= cache.max_size
                      /\ search_term \notin KeysOf(cache.cache)
                   THEN DictDel(cache.cache,
                                {cache.cache[FirstOldest(cache.cache,
                                     LAMBDA e : e.timestamp)].key})
                   ELSE cache.cache
           gone == KeysOf(cache.cache) \ KeysOf(room)
       IN /\ cache' = [cache EXCEPT
                         !.cache = DictSet(room, [key |-> search_term,
                                                  value |-> results,
                                                  timestamp |-> now])]
          /\ puts' = RecordPut(search_term, results, now + cache.ttl + 1, gone)
          /\ ret' = Returned("put", search_term, results, gone)
    /\ UNCHANGED <<now, cacheFrame>>

SearchResultCache_clear ==
    /\ cache.class = "SearchResultCache"
    /\ cache' = [cache EXCEPT !.cache = <<>>]
    /\ puts' = RecordClear
    /\ ret' = Returned("clear", None, None, {})
    /\ UNCHANGED <<now, cacheFrame>>

(***************************************************************************)
(* TimedCache                                                              *)
(***************************************************************************)
\* The keys the timed cache, which has no capacity, is exercised with.
TimedKeys == {"k1", "k2"}

\* The ttl argument of put: <<>> is None, <<n>> is n seconds.
TtlArguments == {<<>>} \cup {<<n>> : n \in 0..MaxTtl}

\* `ttl or self.ttl`: a ttl of 0 falls back to the default.
ExpirationTruthy(t, ttl, default) ==
    t + (IF ttl = <<>> \/ ttl[1] = 0 THEN default ELSE ttl[1])
\* time.time() + (ttl if ttl is not None else self.ttl)
Expiration(t, ttl, default) == t + (IF ttl = <<>> THEN default ELSE ttl[1])

TimedCache(ttl) == [class |-> "TimedCache", ttl |-> ttl, cache |-> <<>>]

TimedCache_get(key) ==
    /\ cache.class = "TimedCache"
    /\ IF key \in KeysOf(cache.cache)
       THEN LET e == Entry(cache.cache, key)
            IN IF now < e.expiration_time
               THEN /\ cache' = cache
                    /\ ret' = Returned("get", key, e.value, {})
               ELSE /\ cache' = [cache EXCEPT !.cache = DictDel(@, {key})]
                    /\ ret' = Returned("get", key, None, {})
       ELSE /\ cache' = cache
            /\ ret' = Returned("get", key, None, {})
    /\ UNCHANGED <<now, puts, cacheFrame>>

TimedCache_put(key, value, ttl) ==
    /\ cache.class = "TimedCache"
    /\ LET expiration_time == Expiration(now, ttl, cache.ttl)
       IN /\ cache' = [cache EXCEPT
                         !.cache = DictSet(@, [key |-> key, value |-> value,
                                               expiration_time |-> expiration_time])]
          /\ puts' = RecordPut(key, value, expiration_time, {})
          /\ ret' = [op |-> "put", key |-> key, value |-> value, evicted |-> {},
                     ttl |-> ttl]
    /\ UNCHANGED <<now, cacheFrame>>

TimedCache_clear_expired ==
    /\ cache.class = "TimedCache"
    /\ LET expired_keys == {k \in KeysOf(cache.cache) :
                               Entry(cache.cache, k).expiration_time <= now}
       IN /\ cache' = [cache EXCEPT !.cache = DictDel(@, expired_keys)]
          /\ ret' = Returned("clear_expired", None, Cardinality(expired_keys),
                             expired_keys)
    /\ UNCHANGED <<now, puts, cacheFrame>>

TimedCache_clear ==
    /\ cache.class = "TimedCache"
    /\ cache' = [cache EXCEPT !.cache = <<>>]
    /\ puts' = RecordClear
    /\ ret' = Returned("clear", None, None, {})
    /\ UNCHANGED <<now, cacheFrame>>

(***************************************************************************)
(* EnhancedDiskCache.  Sizes are counted in whole megabytes.  hash() of a   *)
(* str is keyed by the process's hash seed (PYTHONHASHSEED, random unless   *)
(* set); it is taken to be free of collisions.                              *)
(***************************************************************************)
MiB == 1
HashSeeds == {"s1", "s2"}

\* os.path.getsize of the pickle of a value.
getsize(value) == IF value = "v1" THEN 1 * MiB ELSE 2 * MiB

hash(seed, key) == <<seed, key>>
get_cache_path(seed, key) == <<hash(seed, key), ".cache">>

RemoveFile(files, path) == [p \in DOMAIN files \ {path} |-> files[p]]
WriteFile(files, path, value) ==
    [p \in DOMAIN files \cup {path} |-> IF p = path THEN value ELSE files[p]]

RECURSIVE TotalSize(_)
TotalSize(metadata) ==
    IF metadata = <<>> THEN 0 ELSE Head(metadata).size + TotalSize(Tail(metadata))

EnhancedDiskCache(max_size_mb, max_items, seed) ==
    [class |-> "EnhancedDiskCache", max_size_bytes |-> max_size_mb * MiB,
     max_items |-> max_items, metadata |-> <<>>, seed |-> seed,
     files |-> <<>>, metadata_pkl |-> <<>>]

load_metadata(c) == [c EXCEPT !.metadata = c.metadata_pkl]
save_metadata(c) == [c EXCEPT !.metadata_pkl = c.metadata]

remove_item(c, key) ==
    IF key \notin KeysOf(c.metadata) THEN c
    ELSE [c EXCEPT !.files = RemoveFile(@, get_cache_path(c.seed, key)),
                   !.metadata = DictDel(@, {key})]

RECURSIVE evict_items(_, _)
evict_items(c, count) ==
    IF c.metadata = <<>> \/ count <= 0 THEN c
    ELSE LET oldest == c.metadata[FirstOldest(c.metadata, LAMBDA e : e.last_access)]
         IN evict_items(remove_item(c, oldest.key), count - 1)

RECURSIVE free_space(_, _, _)
free_space(c, bytes_to_free, freed) ==
    IF c.metadata = <<>> THEN c
    ELSE LET oldest == c.metadata[FirstOldest(c.metadata, LAMBDA e : e.last_access)]
             rest == remove_item(c, oldest.key)
         IN IF freed + oldest.size >= bytes_to_free THEN rest
            ELSE free_space(rest, bytes_to_free, freed + oldest.size)

ensure_space(c) ==
    LET counted == IF Len(c.metadata) >= c.max_items
                   THEN evict_items(c, Len(c.metadata) - c.max_items + 1)
                   ELSE c
        total_size == TotalSize(counted.metadata)
    IN IF total_size >= c.max_size_bytes
       THEN free_space(counted, total_size - c.max_size_bytes + MiB, 0)
       ELSE counted

EnhancedDiskCache_get(key) ==
    /\ cache.class = "EnhancedDiskCache"
    /\ LET cache_path == get_cache_path(cache.seed, key)
       IN IF key \notin KeysOf(cache.metadata)
          THEN /\ cache' = cache
               /\ ret' = Returned("get", key, None, {})
          ELSE IF cache_path \notin DOMAIN cache.files
          THEN /\ cache' = save_metadata([cache EXCEPT !.metadata = DictDel(@, {key})])
               /\ ret' = Returned("get", key, None, {})
          ELSE /\ cache' = save_metadata(
                     [cache EXCEPT !.metadata =
                         DictSet(@, [Entry(@, key) EXCEPT !.last_access = now])])
               /\ ret' = Returned("get", key, cache.files[cache_path], {})
    /\ UNCHANGED <<now, puts, cacheFrame>>

EnhancedDiskCache_put(key, value) ==
    /\ cache.class = "EnhancedDiskCache"
    /\ LET room == ensure_space(cache)
           gone == KeysOf(cache.metadata) \ KeysOf(room.metadata)
           written == [room EXCEPT
                         !.files = WriteFile(@, get_cache_path(cache.seed, key), value),
                         !.metadata = DictSet(@, [key |-> key, size |-> getsize(value),
                                                  created |-> now,
                                                  last_access |-> now])]
       IN /\ cache' = save_metadata(written)
          /\ puts' = RecordPut(key, value, -1, gone)
          /\ ret' = Returned("put", key, value, gone)
    /\ UNCHANGED <<now, cacheFrame>>

RECURSIVE RemoveAll(_, _)
RemoveAll(c, keys) ==
    IF keys = {} THEN c
    ELSE LET k == CHOOSE x \in keys : TRUE
         IN RemoveAll(remove_item(c, k), keys \ {k})

EnhancedDiskCache_clear ==
    /\ cache.class = "EnhancedDiskCache"
    /\ cache' = save_metadata([RemoveAll(cache, KeysOf(cache.metadata))
                                  EXCEPT !.metadata = <<>>])
    /\ puts' = RecordClear
    /\ ret' = Returned("clear", None, None, {})
    /\ UNCHANGED <<now, cacheFrame>>

\* The process ends and a later one constructs the cache on the same
\* directory: a new hash seed, the index read back from metadata.pkl.
EnhancedDiskCache_restart(seed) ==
    /\ cache.class = "EnhancedDiskCache"
    /\ cache' = load_metadata([cache EXCEPT !.seed = seed])
    /\ ret' = Returned("restart", None, None, {})
    /\ UNCHANGED <<now, puts, cacheFrame>>

(***************************************************************************)
(* One cache object, of any of the four classes, under any calls.          *)
(***************************************************************************)
NewCaches ==
    {MemoryAwareLRUCache(c) : c \in 1..MaxCapacity}
    \cup {SearchResultCache(c, 1) : c \in 1..MaxCapacity}
    \cup {TimedCache(MaxTtl + 1)}
    \cup {EnhancedDiskCache(2, n, "s1") : n \in 1..MaxCapacity}

\* The state in which no cache object has been constructed yet.
InitNoCache ==
    /\ db = create_database
    /\ now = 0
    /\ ret = NoReturn
    /\ pc = [t \in Threads |-> "idle"]
    /\ job = [t \in Threads |-> NoJob]
    /\ image_cache = <<>>
    /\ pdf_cache = {}
    /\ completed = {}
    /\ overlap = {}
    /\ pager = NoPager
    /\ puts = NoPuts
    /\ ocr = TesseractOCRProcessor(TRUE)
    /\ batch = NoBatch
    /\ engine = NoEngine
    /\ window = SearchApp
    /\ checker = MemoryCheck

InitCaches == InitNoCache /\ cache \in NewCaches

NextCaches ==
    \/ Sleep
    \/ \E k \in Keys : MemoryAwareLRUCache_get(k)
    \/ \E k \in Keys, v \in Values, m \in MemoryReadings : MemoryAwareLRUCache_put(k, v, m)
    \/ MemoryAwareLRUCache_clear
    \/ \E k \in Keys : SearchResultCache_get(k)
    \/ \E k \in Keys, v \in Values : SearchResultCache_put(k, v)
    \/ SearchResultCache_clear
    \/ \E k \in TimedKeys : TimedCache_get(k)
    \/ \E k \in TimedKeys, v \in Values, ttl \in TtlArguments : TimedCache_put(k, v, ttl)
    \/ TimedCache_clear_expired
    \/ TimedCache_clear
    \/ \E k \in Keys : EnhancedDiskCache_get(k)
    \/ \E k \in Keys, v \in Values : EnhancedDiskCache_put(k, v)
    \/ EnhancedDiskCache_clear

SpecCaches == InitCaches /\ [][NextCaches]_vars

\* C14: a MemoryAwareLRUCache or SearchResultCache constructed with
\* max_size = C >= 1 holds at most C entries after any sequence of get, put
\* and clear calls, so the put of a (C+1)-th distinct key evicts an earlier one.
C14_CapacityKept ==
    cache.class \in {"MemoryAwareLRUCache", "SearchResultCache"}
        => Len(cache.cache) <= cache.max_size

\* Every key has been put into a full MemoryAwareLRUCache of capacity two.
C14_Witness ==
    /\ cache.class = "MemoryAwareLRUCache"
    /\ cache.max_size = Cardinality(Keys) - 1
    /\ Len(cache.cache) = cache.max_size
    /\ ret.op = "put"
    /\ \A k \in Keys : puts[k] # NoPut

\* The put of a key has run out: the cache was built with a time to live.
Expired(p) == p.expires >= 0 /\ now >= p.expires

C16_ExpiryAtExpirationTime ==
    [][/\ (/\ ret'.op = "get"
           /\ TimedCache_get(ret'.key)
           /\ ret'.key \in KeysOf(cache.cache))
             => LET e == Entry(cache.cache, ret'.key)
                IN IF now >= e.expiration_time
                   THEN ret'.value = None /\ ret'.key \notin KeysOf(cache'.cache)
                   ELSE ret'.value = e.value /\ e \in Range(cache'.cache)
       /\ (/\ ret'.op = "put"
           /\ cache.class = "TimedCache"
           /\ TimedCache_put(ret'.key, ret'.value, ret'.ttl))
             => Entry(cache'.cache, ret'.key).expiration_time
                  = now + (IF ret'.ttl = <<>> THEN cache.ttl ELSE ret'.ttl[1])]_vars

\* A get made exactly at the expiration time missed and removed the entry.
C16_Witness ==
    /\ cache.class = "TimedCache"
    /\ ret.op = "get"
    /\ ret.value = None
    /\ puts[ret.key].live
    /\ puts[ret.key].expires = now
    /\ now > 0
    /\ ret.key \notin KeysOf(cache.cache)

\* C17: after every put of an EnhancedDiskCache the index holds at most
\* max_items entries and their recorded sizes sum to at most max_size_bytes.
C17_DiskLimitsKept ==
    (cache.class = "EnhancedDiskCache" /\ ret.op = "put")
        => /\ Len(cache.metadata) <= cache.max_items
           /\ TotalSize(cache.metadata) <= cache.max_size_bytes

(***************************************************************************)
(* An EnhancedDiskCache across restarts of the process.                    *)
(***************************************************************************)
InitDiskRestart == InitCaches /\ cache.class = "EnhancedDiskCache"

\* The keys the cache is exercised with across restarts.
RestartKeys == {"k1", "k2"}

NextDiskRestart ==
    \/ \E k \in RestartKeys : EnhancedDiskCache_get(k)
    \/ \E k \in RestartKeys, v \in Values : EnhancedDiskCache_put(k, v)
    \/ \E s \in HashSeeds : EnhancedDiskCache_restart(s)

SpecDiskRestart == InitDiskRestart /\ [][NextDiskRestart]_vars

\* C18: an entry put into an EnhancedDiskCache and not evicted is returned by
\* get(k) also from an instance constructed later on the same directory.
C18_EntrySurvivesRestart ==
    (cache.class = "EnhancedDiskCache" /\ ret.op = "get" /\ puts[ret.key].live)
        => ret.value = puts[ret.key].value

(***************************************************************************)
(* memoize.  wrapper builds the key, takes the closure's RLock, looks the   *)
(* key up and, on a miss, calls func and stores the result before the lock  *)
(* is released.  The n-th invocation of func returns n, so that the result  *)
(* of one invocation can be told from that of another.                      *)
(***************************************************************************)
MaxInvocations == 4

Arguments == {<<1>>, <<2>>}
\* key = (args, tuple(sorted(kwargs.items()))), of a call without keywords.
MemoKey(args) == <<args, <<>>>>
MemoKeys == {MemoKey(a) : a \in Arguments}
IdleFrame == [at |-> "idle", key |-> MemoKey(<<>>)]

\* A lock that excludes nobody.
AlwaysAcquirable(lock, t) == TRUE
\* threading.RLock: free, or already held by the thread that asks.
Acquirable(lock, t) == lock = "none" \/ lock = t

memoize ==
    [class |-> "memoize", cache |-> <<>>, lock |-> "none",
     frames |-> [t \in Threads |-> IdleFrame],
     made |-> [k \in MemoKeys |-> <<>>], serial |-> 0]

InFlight == {t \in Threads : cache.frames[t].at # "idle"}

\* wrapper(*args) up to `with lock`.
wrapper_call(t, args) ==
    /\ cache.class = "memoize"
    /\ cache.frames[t].at = "idle"
    /\ cache.serial + Cardinality(InFlight) < MaxInvocations
    /\ cache' = [cache EXCEPT !.frames[t] = [at |-> "lock", key |-> MemoKey(args)]]
    /\ UNCHANGED <<now, ret, puts, cacheFrame>>

\* `with lock: if key in cache: return cache[key]`
wrapper_enter(t) ==
    /\ cache.class = "memoize"
    /\ cache.frames[t].at = "lock"
    /\ Acquirable(cache.lock, t)
    /\ LET key == cache.frames[t].key
       IN IF key \in DOMAIN cache.cache
          THEN /\ cache' = [cache EXCEPT !.frames[t] = IdleFrame]
               /\ ret' = Returned("call", key, cache.cache[key], {})
          ELSE /\ cache' = [cache EXCEPT !.lock = t, !.frames[t].at = "func"]
               /\ ret' = ret
    /\ UNCHANGED <<now, puts, cacheFrame>>

\* `result = func(*args, **kwargs); cache[key] = result; return result`
wrapper_compute(t) ==
    /\ cache.class = "memoize"
    /\ cache.frames[t].at = "func"
    /\ LET key == cache.frames[t].key
           result == cache.serial + 1
       IN /\ cache' = [cache EXCEPT
                         !.cache = [k \in DOMAIN @ \cup {key} |->
                                        IF k = key THEN result ELSE @[k]],
                         !.made[key] = Append(@, result),
                         !.serial = result,
                         !.lock = "none",
                         !.frames[t] = IdleFrame]
          /\ ret' = Returned("call", key, result, {})
    /\ UNCHANGED <<now, puts, cacheFrame>>

clear_cache(t) ==
    /\ cache.class = "memoize"
    /\ cache.frames[t].at = "idle"
    /\ Acquirable(cache.lock, t)
    /\ cache' = [cache EXCEPT !.cache = <<>>, !.made = [k \in MemoKeys |-> <<>>]]
    /\ ret' = Returned("clear_cache", None, None, {})
    /\ UNCHANGED <<now, puts, cacheFrame>>

InitMemoize == InitNoCache /\ cache = memoize

NextMemoize ==
    \/ \E t \in Threads, args \in Arguments : wrapper_call(t, args)
    \/ \E t \in Threads : wrapper_enter(t)
    \/ \E t \in Threads : wrapper_compute(t)
    \/ \E t \in Threads : clear_cache(t)

SpecMemoize == InitMemoize /\ [][NextMemoize]_vars

OcrFaults ==
    {"subprocess.TimeoutExpired", "subprocess.CalledProcessError",
     "RuntimeError", "PIL.UnidentifiedImageError"}

\* Where the fault is met: Image.open of process_image_bytes raises for bytes
\* PIL cannot identify, before extract_text is entered; the rest is raised
\* inside extract_text.
RaisedInImageOpen(fault) == fault = "PIL.UnidentifiedImageError"

\* ocr_text = self.ocr_processor.process_image_bytes(img['image_bytes']) with
\* a fault: either "" comes back and nothing is written for the image, or
\* the exception reaches process_pdf's `except Exception: ... raise`.
process_pdf_ocr_fault(t, fault) ==
    LET info == FileInfo[job[t].file]
    IN  /\ pc[t] = "ocr"
        /\ ret' = [op |-> "process_image_bytes", error |-> fault, thread |-> t]
        /\ IF RaisedInImageOpen(fault)
              THEN /\ pc' = [pc EXCEPT ![t] = "raised"]
                   /\ UNCHANGED <<job, completed>>
              ELSE IF job[t].image < info.pages[job[t].page].images
              THEN /\ pc' = [pc EXCEPT ![t] = "image"]
                   /\ job' = [job EXCEPT ![t].image = @ + 1]
                   /\ UNCHANGED completed
              ELSE AfterPage(t)
        /\ UNCHANGED <<db, now, image_cache, pdf_cache, overlap, clientVars>>

\* The documents ingested while images may fail, by one thread at a time.
FaultFiles == {"x", "y", "z"}
FaultThreads == {"t1"}

NextOcrFaults ==
    \/ \E t \in FaultThreads, f \in FaultFiles : process_pdf_call(t, f)
    \/ \E t \in Threads : process_pdf_check(t)
    \/ \E t \in Threads : process_pdf_insert(t)
    \/ \E t \in Threads : process_pdf_page(t)
    \/ \E t \in Threads : process_pdf_image(t)
    \/ \E t \in Threads : process_pdf_ocr(t)
    \/ \E t \in Threads, fault \in OcrFaults : process_pdf_ocr_fault(t, fault)

SpecOcrFaults == Init /\ [][NextOcrFaults]_vars

\* C20: an OCR failure on one image never fails the document: the run of
\* process_pdf that met it does not raise, and once it is done every page of
\* the document has its text row.
C20_OcrFailureNeverFailsDocument ==
    ret.op = "process_image_bytes"
        => /\ pc[ret.thread] # "raised"
           /\ pc[ret.thread] = "done"
                => \A n \in 1..Len(FileInfo[job[ret.thread].file].pages) :
                     \E r \in db.pages : r.pdf_id = job[ret.thread].pdf_id
                                         /\ r.page_number = n

(***************************************************************************)
(* core/ocr/tesseract.py: one call of TesseractOCRProcessor.extract_text.   *)
(* The call is sequential, so it is one step; what the environment does to  *)
(* it (a file that cannot be made, a process that times out) is an input.   *)
(***************************************************************************)
MaxTempDirs == 3

SKIP_ORIGINAL_IMAGE_THRESHOLD == 3000 * 3000
MAX_IMAGE_WIDTH == 1000
MAX_IMAGE_HEIGHT == 1000

\* The shapes of image_data, and the (width, height) of the image it holds.
ImageShapes == {"bytes", "image", "path"}
ImageSizes == {<<100, 100>>, <<3000, 2999>>, <<3000, 3000>>, <<3000, 3001>>}

\* Where the call may be failed from outside: the path names no file, the
\* image cannot be opened, mkstemp fails in the directory mkdtemp just made,
\* image.save fails, tesseract runs out of time or exits with an error or
\* leaves no output file, shutil.rmtree fails.
ExtractFaults ==
    {"none", "missing", "open", "mkstemp", "save", "timeout", "process_error",
     "no_output", "rmtree"}

\* What tesseract writes to its output file.
OcrOutputs == {<<>>, <<"b">>, <<" ", "b", "\n">>}

\* str.strip()
RECURSIVE LStrip(_)
LStrip(text) ==
    IF text # <<>> /\ Head(text) \in Whitespace THEN LStrip(Tail(text)) ELSE text
RECURSIVE RStrip(_)
RStrip(text) ==
    IF text # <<>> /\ text[Len(text)] \in Whitespace
    THEN RStrip(SubSeq(text, 1, Len(text) - 1)) ELSE text
Strip(text) == RStrip(LStrip(text))

\* The size _optimize_image_for_ocr leaves the image with.
OptimizedSize(size) ==
    IF size[1] > MAX_IMAGE_WIDTH \/ size[2] > MAX_IMAGE_HEIGHT
    THEN IF MAX_IMAGE_WIDTH * size[2] <= MAX_IMAGE_HEIGHT * size[1]
         THEN <<MAX_IMAGE_WIDTH, (size[2] * MAX_IMAGE_WIDTH) \div size[1]>>
         ELSE <<(size[1] * MAX_IMAGE_HEIGHT) \div size[2], MAX_IMAGE_HEIGHT>>
    ELSE size

\* The pixel count taken after the image was optimized.
SkippedAfterOptimization(skip_large_images, size) ==
    /\ skip_large_images
    /\ OptimizedSize(size)[1] * OptimizedSize(size)[2] >= SKIP_ORIGINAL_IMAGE_THRESHOLD
\* if self.skip_large_images: if original_size[0] * original_size[1] >= threshold
Skipped(skip_large_images, size) ==
    /\ skip_large_images
    /\ size[1] * size[2] >= SKIP_ORIGINAL_IMAGE_THRESHOLD

\* What the call hands back and what it did on the way: the temporary
\* directories it made, whether tesseract was started.
Extracted(shape, size, fault, value, dirs, started, skipped) ==
    [op |-> "extract_text", shape |-> shape, size |-> size, fault |-> fault,
     value |-> value, dirs |-> dirs, started |-> started, skipped |-> skipped]

\* The finally block: the directory is removed from disk and from _temp_dirs
\* unless rmtree raises, which is logged and leaves both as they are.
CleanedUp(o, dir, fault) ==
    IF fault = "rmtree" THEN o
    ELSE [o EXCEPT !.fs = @ \ {dir}, !.temp_dirs = @ \ {dir}]

extract_text(shape, size, fault, output) ==
    LET dir == ocr.made + 1
        \* _create_secure_temp_directory: mkdtemp, then _temp_dirs.append
        made == [ocr EXCEPT !.made = dir, !.fs = @ \cup {dir},
                            !.temp_dirs = @ \cup {dir}]
    IN  /\ ocr.made < MaxTempDirs
        /\ fault = "missing" => shape = "path"
        /\ fault = "open" => shape # "image"
        /\ IF fault \in {"missing", "open"}
           THEN \* raised before anything was made; `except Exception: return ""`
                /\ ocr' = ocr
                /\ ret' = Extracted(shape, size, fault, <<>>, {}, FALSE, FALSE)
           ELSE IF Skipped(ocr.skip_large_images, size)
           THEN /\ ocr' = ocr
                /\ ret' = Extracted(shape, size, fault, <<>>, {}, FALSE, TRUE)
           ELSE IF fault = "mkstemp"
           THEN \* raised inside _create_secure_temp_file: temp_dir is still
                \* None in the finally block
                /\ ocr' = made
                /\ ret' = Extracted(shape, size, fault, <<>>, {dir}, FALSE, FALSE)
           ELSE IF fault = "save"
           THEN /\ ocr' = CleanedUp(made, dir, fault)
                /\ ret' = Extracted(shape, size, fault, <<>>, {dir}, FALSE, FALSE)
           ELSE IF fault \in {"timeout", "process_error", "no_output"}
           THEN /\ ocr' = CleanedUp(made, dir, fault)
                /\ ret' = Extracted(shape, size, fault, <<>>, {dir}, TRUE, FALSE)
           ELSE /\ ocr' = CleanedUp(made, dir, fault)
                /\ ret' = Extracted(shape, size, fault, Strip(output), {dir}, TRUE,
                                    FALSE)
        /\ UNCHANGED <<db, now, threadVars, pager, cache, puts, batch, engine, window, checker>>

\* _cleanup_temp_directories, as __del__ runs it.
cleanup_temp_directories ==
    /\ ocr.temp_dirs # {}
    /\ ocr' = [ocr EXCEPT !.fs = @ \ ocr.temp_dirs, !.temp_dirs = {}]
    /\ ret' = [op |-> "_cleanup_temp_directories"]
    /\ UNCHANGED <<db, now, threadVars, pager, cache, puts, batch, engine, window, checker>>

InitOcr ==
    /\ db = create_database
    /\ now = 0
    /\ ret = NoReturn
    /\ pc = [t \in Threads |-> "idle"]
    /\ job = [t \in Threads |-> NoJob]
    /\ image_cache = <<>>
    /\ pdf_cache = {}
    /\ completed = {}
    /\ overlap = {}
    /\ pager = NoPager
    /\ cache = NoCache
    /\ puts = NoPuts
    /\ ocr \in {TesseractOCRProcessor(s) : s \in BOOLEAN}
    /\ batch = NoBatch
    /\ engine = NoEngine
    /\ window = SearchApp
    /\ checker = MemoryCheck

NextOcr ==
    \/ \E shape \in ImageShapes, size \in ImageSizes, fault \in ExtractFaults,
          output \in OcrOutputs : extract_text(shape, size, fault, output)
    \/ cleanup_temp_directories

SpecOcr == InitOcr /\ [][NextOcr]_vars

\* C21: when extract_text returns, on every exit path, every temporary
\* directory the call made is gone from disk and from _temp_dirs, the
\* caller's own image file is still there, and a timeout gave "".
C21_TempFilesRemoved ==
    ret.op = "extract_text"
        => /\ ret.dirs \cap (ocr.fs \cup ocr.temp_dirs) = {}
           /\ ocr.user_file
           /\ ret.fault = "timeout" => ret.value = <<>>

\* C30: with skip_large_images on, an image of more than 3000*3000 pixels
\* gives "" in each input shape, with no temporary file made and tesseract
\* not started; an image under the threshold is not skipped.
C30_LargeImagesSkipped ==
    (ret.op = "extract_text" /\ ocr.skip_large_images)
        => /\ ret.size[1] * ret.size[2] > SKIP_ORIGINAL_IMAGE_THRESHOLD
                => ret.value = <<>> /\ ret.dirs = {} /\ ~ret.started
           /\ ret.size[1] * ret.size[2] < SKIP_ORIGINAL_IMAGE_THRESHOLD
                => ~ret.skipped
           /\ (ret.size[1] * ret.size[2] < SKIP_ORIGINAL_IMAGE_THRESHOLD
               /\ ret.fault = "none") => ret.started

\* A file path that names an image of 3000 x 3001 pixels was skipped.
C30_Witness ==
    /\ ret.op = "extract_text"
    /\ ocr.skip_large_images
    /\ ret.shape = "path"
    /\ ret.size = <<3000, 3001>>
    /\ ret.fault = "none"
    /\ ret.skipped

(***************************************************************************)
(* core/pdf_processor.py: process_pdf on files that validation rejects.    *)
(* One thread ingests files of every kind, one after the other.            *)
(***************************************************************************)
ValidationFiles == {"x", "y", "upper", "bad", "missing", "folder", "locked", "huge", "zip"}
ValidationThreads == {"t1"}

NextValidation ==
    \/ \E t \in ValidationThreads, f \in ValidationFiles : process_pdf_call(t, f)
    \/ \E t \in ValidationThreads : process_pdf_check(t)
    \/ \E t \in ValidationThreads : process_pdf_insert(t)
    \/ \E t \in ValidationThreads : process_pdf_page(t)
    \/ \E t \in ValidationThreads : process_pdf_image(t)
    \/ \E t \in ValidationThreads : process_pdf_ocr(t)

SpecValidation == Init /\ [][NextValidation]_vars

\* The reasons for which a file is to be rejected: the path is missing, is no
\* regular file or cannot be read, the file is over the size ceiling, its
\* extension is not .pdf, or its first bytes are not %PDF.
Rejected(st) ==
    \/ ~st.exists
    \/ ~st.is_file
    \/ ~st.readable
    \/ st.size > MAX_FILE_SIZE
    \/ st.suffix \notin {<<".", "p", "d", "f">>, <<".", "P", "D", "F">>}
    \/ st.signature # "%PDF"

\* C22: a process_pdf call for a file that is missing, unreadable, over the
\* size ceiling, of another extension or without the %PDF signature ends with
\* the ValueError and leaves the store and the caches as they were; no row and
\* no cache entry of such a file ever exists.
C22_InvalidFileRejected ==
    /\ [][\A t \in ValidationThreads, f \in ValidationFiles :
            (process_pdf_call(t, f) /\ Rejected(FileInfo[f].stat))
                => /\ pc'[t] = "raised"
                   /\ db' = db
                   /\ image_cache' = image_cache
                   /\ pdf_cache' = pdf_cache]_vars
    /\ [](\A f \in ValidationFiles :
            Rejected(FileInfo[f].stat)
                => /\ RowsOf(f) = {}
                   /\ FileInfo[f].file_path \notin pdf_cache)

\* C22 witness: after a document was ingested with its page, image and OCR
\* rows, the call for the file without the %PDF signature has raised.
C22_Witness ==
    /\ pc["t1"] = "raised" /\ job["t1"].file = "zip"
    /\ Cardinality(db.pdf_files) = 1 /\ Cardinality(db.pages) = 1
    /\ Cardinality(db.ocr_text) = 1
    /\ pdf_cache # {}

(***************************************************************************)
(* core/pdf_processor.py: process_folder.  The files that glob finds are   *)
(* submitted to a ThreadPoolExecutor of max_workers threads; each worker   *)
(* takes the next work item of the queue, runs process_pdf in it and sets  *)
(* the item's future; the calling thread takes the futures as they         *)
(* complete and logs the exception of each failed one.                     *)
(***************************************************************************)
FolderFiles == {"x", "y", "zip", "bad"}
PoolSizes == {1, 2}

\* The folders process_folder is called with: one that validate_folder_path
\* rejects, and the accepted ones with any of the files in them.
Folders ==
    {[valid |-> FALSE, files |-> {}]}
        \cup {[valid |-> TRUE, files |-> S] : S \in SUBSET FolderFiles}

\* path.glob("*.pdf")
Glob(files) == {f \in files : FileInfo[f].stat.suffix = <<".", "p", "d", "f">>}

\* The orders in which a set of files can be listed.
Orders(S) ==
    {q \in [1..Cardinality(S) -> S] : \A i, j \in DOMAIN q : q[i] = q[j] => i = j}

ThreadIndex == [t1 |-> 1, t2 |-> 2]
\* A pool that starts a thread for every work item.
UnboundedPool(max_workers) == Threads
\* The threads a pool of max_workers starts at most.
WorkerThreads(max_workers) == {t \in Threads : ThreadIndex[t] <= max_workers}

Terminal == {"done", "skipped", "raised"}

\* process_folder(folder_path, max_workers) up to the end of the submissions:
\* ValueError for a folder that is not valid, else every file found is
\* submitted.
process_folder_call(folder, max_workers) ==
    /\ batch.status # "running"
    /\ \A t \in Threads : pc[t] \notin Running
    /\ IF ~folder.valid
          THEN /\ ret' = [op |-> "process_folder", error |-> "ValueError", value |-> <<>>]
               /\ UNCHANGED <<batch, pc>>
          ELSE /\ \E pdf_files \in Orders(Glob(folder.files)) :
                    batch' = [status |-> "running",
                              max_workers |-> max_workers,
                              found |-> Range(pdf_files),
                              queue |-> pdf_files,
                              submitted |-> [f \in Range(pdf_files) |->
                                  Cardinality({i \in DOMAIN pdf_files : pdf_files[i] = f})],
                              outcome |-> [f \in Range(pdf_files) |-> "pending"],
                              collected |-> {},
                              logged |-> {}]
               /\ pc' = [t \in Threads |-> "idle"]
               /\ ret' = ret
    /\ UNCHANGED <<db, now, job, image_cache, pdf_cache, completed, overlap,
                   pager, cache, puts, ocr, engine, window, checker>>

\* A worker thread takes the next work item and calls process_pdf.
worker_run(t) ==
    /\ batch.status = "running"
    /\ t \in WorkerThreads(batch.max_workers)
    /\ pc[t] = "idle"
    /\ batch.queue # <<>>
    /\ LET f == Head(batch.queue)
       IN  /\ batch' = [batch EXCEPT !.queue = Tail(@), !.outcome[f] = "running"]
           /\ job' = [job EXCEPT ![t] = [NoJob EXCEPT !.file = f]]
           /\ pc' = [pc EXCEPT ![t] =
                        IF validate_file_path(FileInfo[f].stat)
                           /\ validate_pdf_file(FileInfo[f].stat)
                           THEN "check" ELSE "raised"]
           /\ overlap' = IF \E u \in Threads \ {t} : pc[u] \in Running /\ job[u].file = f
                            THEN overlap \cup {f} ELSE overlap
    /\ UNCHANGED <<db, now, ret, image_cache, pdf_cache, completed, pager, cache, puts, ocr, engine, window, checker>>

\* process_pdf has returned or raised in the worker: the future is set.
future_done(t) ==
    /\ batch.status = "running"
    /\ pc[t] \in Terminal
    /\ job[t].file \in batch.found
    /\ batch.outcome[job[t].file] = "running"
    /\ batch' = [batch EXCEPT !.outcome[job[t].file] = pc[t]]
    /\ pc' = [pc EXCEPT ![t] = "idle"]
    /\ UNCHANGED <<db, now, ret, job, image_cache, pdf_cache, completed, overlap,
                   pager, cache, puts, ocr, engine, window, checker>>

\* A loop without the try: the exception of a failed future leaves
\* process_folder.
as_completed_reraising(f) ==
    /\ batch.status = "running"
    /\ f \in batch.found \ batch.collected
    /\ batch.outcome[f] \in Terminal
    /\ batch' = IF batch.outcome[f] = "raised"
                   THEN [batch EXCEPT !.status = "aborted"]
                   ELSE [batch EXCEPT !.collected = @ \cup {f}]
    /\ UNCHANGED <<db, now, ret, threadVars, pager, cache, puts, ocr, engine, window, checker>>

\* for future in as_completed(futures): future.result(), the exception logged.
as_completed(f) ==
    /\ batch.status = "running"
    /\ f \in batch.found \ batch.collected
    /\ batch.outcome[f] \in Terminal
    /\ batch' = [batch EXCEPT !.collected = @ \cup {f},
                              !.logged = IF batch.outcome[f] = "raised"
                                            THEN @ \cup {f} ELSE @]
    /\ UNCHANGED <<db, now, ret, threadVars, pager, cache, puts, ocr, engine, window, checker>>

\* The loop is over and the executor is shut down: process_folder returns None.
process_folder_return ==
    /\ batch.status = "running"
    /\ batch.collected = batch.found
    /\ batch' = [batch EXCEPT !.status = "returned"]
    /\ ret' = [op |-> "process_folder", error |-> "none", value |-> <<>>]
    /\ UNCHANGED <<db, now, threadVars, pager, cache, puts, ocr, engine, window, checker>>

\* What a worker thread does next.
WorkerStep(t) ==
    \/ worker_run(t)
    \/ process_pdf_check(t)
    \/ process_pdf_insert(t)
    \/ process_pdf_page(t)
    \/ process_pdf_image(t)
    \/ process_pdf_ocr(t)
    \/ process_pdf_ocr_fault(t, "PIL.UnidentifiedImageError")
    \/ future_done(t)

NextFolder ==
    \/ \E folder \in Folders, n \in PoolSizes : process_folder_call(folder, n)
    \/ \E t \in Threads : WorkerStep(t)
    \/ \E f \in FolderFiles : as_completed(f)
    \/ process_folder_return

SpecFolder == Init /\ [][NextFolder]_vars

\* Every thread that can take a step is scheduled, and every call made inside
\* process_pdf returns or raises (the OCR subprocess has its timeout).
SpecFolderFair ==
    /\ SpecFolder
    /\ \A t \in Threads : WF_vars(WorkerStep(t))
    /\ WF_vars(\E f \in FolderFiles : as_completed(f))
    /\ WF_vars(process_folder_return)

\* The page rows of a file's documents.
PagesOf(f) == {r \in db.pages : \E d \in RowsOf(f) : r.pdf_id = d.id}

\* C23: once process_folder has submitted the files it found, it returns, and
\* by then every file has ended as done, skipped or raised; whichever files
\* failed, a file that is valid and has no image to fail on has not raised,
\* and a file that ended as done has its document row and a row for each of
\* its pages.
C23_BatchCompletes ==
    /\ (batch.status = "running") ~> (batch.status = "returned")
    /\ [](batch.status = "returned"
            => \A f \in batch.found :
                 /\ batch.outcome[f] \in Terminal
                 /\ (/\ validate_pdf_file(FileInfo[f].stat)
                     /\ \A i \in DOMAIN FileInfo[f].pages : FileInfo[f].pages[i].images = 0)
                        => batch.outcome[f] \in {"done", "skipped"}
                 /\ batch.outcome[f] = "done"
                        => /\ RowsOf(f) # {}
                           /\ \A n \in 1..Len(FileInfo[f].pages) :
                                 \E r \in PagesOf(f) : r.page_number = n)

\* C23 witness: process_folder has returned for a folder of three PDF files
\* of which one failed its validation and one failed on an image; the third
\* is done and its page is stored.
C23_Witness ==
    /\ batch.status = "returned"
    /\ batch.found = {"x", "y", "zip"}
    /\ batch.outcome["zip"] = "raised"
    /\ batch.outcome["x"] = "raised"
    /\ batch.outcome["y"] = "done"
    /\ PagesOf("y") # {}

\* C24: when process_folder has returned, what it returned tells for every
\* file found how its ingestion ended.
C24_OutcomesReturned ==
    (ret.op = "process_folder" /\ ret.error = "none" /\ batch.status = "returned")
        => \A f \in batch.found :
             f \in DOMAIN ret.value /\ ret.value[f] = batch.outcome[f]

max_pages_in_memory == 5

RECURSIVE OverlappingBatches(_, _, _)
\* Batches whose last page is also the first page of the next batch.
OverlappingBatches(start_page, len, size) ==
    IF start_page >= len
        THEN <<>>
        ELSE LET end_page == Min2(start_page + size + 1, len)
             IN  [i \in 1..(end_page - start_page) |-> start_page + i - 1]
                    \o OverlappingBatches(start_page + size, len, size)

RECURSIVE Batches(_, _, _)
\* for start_page in range(start_page, len, size):
\*     for page_index in range(start_page, min(start_page + size, len)): ...
\* The page indexes in the order the two loops visit them.
Batches(start_page, len, size) ==
    IF start_page >= len
        THEN <<>>
        ELSE LET end_page == Min2(start_page + size, len)
             IN  [i \in 1..(end_page - start_page) |-> start_page + i - 1]
                    \o Batches(start_page + size, len, size)

\* The visits of StreamingPDFProcessor.process_pdf to the pages of a file.
Visits(f) == Batches(0, Len(FileInfo[f].pages), max_pages_in_memory)

\* pdf_id = self.db.insert_pdf_file(metadata) for a large file; pdf_cache is
\* only read.  job.page counts the visits made to pages.
process_pdf_insert_streaming(t) ==
    LET info == FileInfo[job[t].file]
        metadata == PDFMetadata(info.file_name, info.file_path)
    IN  /\ pc[t] = "insert"
        /\ is_large_pdf(info.stat)
        /\ db' = InsertPdfFileRow(db, metadata.file_name, metadata.file_path, now)
        /\ IF Visits(job[t].file) = <<>>
              THEN /\ pc' = [pc EXCEPT ![t] = "done"]
                   /\ job' = [job EXCEPT ![t].pdf_id = db'.sqlite_sequence.pdf_files]
                   /\ completed' = completed \cup {job[t].file}
              ELSE /\ pc' = [pc EXCEPT ![t] = "spage"]
                   /\ job' = [job EXCEPT ![t].pdf_id = db'.sqlite_sequence.pdf_files,
                                         ![t].page = 1]
                   /\ UNCHANGED completed
        /\ UNCHANGED <<now, ret, image_cache, pdf_cache, overlap, clientVars>>

\* page_number = page_index + 1 of the visit the thread is at.
PageNumber(t) == Visits(job[t].file)[job[t].page] + 1

\* Where a thread goes after the images of the page it visits: the next
\* visit, or the end of process_pdf.
AfterCallback(t) ==
    IF job[t].page < Len(Visits(job[t].file))
       THEN /\ pc' = [pc EXCEPT ![t] = "spage"]
            /\ job' = [job EXCEPT ![t].page = @ + 1, ![t].image = 0, ![t].cached_ocr = <<>>]
            /\ UNCHANGED completed
       ELSE /\ pc' = [pc EXCEPT ![t] = "done"]
            /\ job' = [job EXCEPT ![t].cached_ocr = <<>>]
            /\ completed' = completed \cup {job[t].file}

\* Where a thread goes after an image: the next image of the page, or on.
AfterImage(t) ==
    IF job[t].image < FileInfo[job[t].file].pages[PageNumber(t)].images
       THEN /\ pc' = [pc EXCEPT ![t] = "simage"]
            /\ job' = [job EXCEPT ![t].image = @ + 1, ![t].cached_ocr = <<>>]
            /\ UNCHANGED completed
       ELSE AfterCallback(t)

\* process_page_callback(page_index, page):
\* self.db.insert_page_text(pdf_id, page_number, sanitize_text(text))
process_page_callback(t) ==
    LET page == FileInfo[job[t].file].pages[PageNumber(t)]
    IN  /\ pc[t] = "spage"
        /\ ForeignKeyOk(db, job[t].pdf_id)
        /\ db' = InsertPageRow(db, job[t].pdf_id, PageNumber(t), sanitize_text(page.text))
        /\ IF page.images > 0
              THEN /\ pc' = [pc EXCEPT ![t] = "simage"]
                   /\ job' = [job EXCEPT ![t].image = 1]
                   /\ UNCHANGED completed
              ELSE AfterCallback(t)
        /\ UNCHANGED <<now, ret, image_cache, pdf_cache, overlap, clientVars>>

\* process_image(img): cached_ocr = image_cache.get(image_key), which misses
\* also when the entry was evicted; then insert_image_metadata on either path.
process_image(t) ==
    LET info == FileInfo[job[t].file]
        image_key == <<info.file_path, PageNumber(t), job[t].image>>
    IN  /\ pc[t] = "simage"
        /\ ForeignKeyOk(db, job[t].pdf_id)
        /\ db' = InsertImageRow(db, job[t].pdf_id, PageNumber(t), "image", "png")
        /\ \E cached_ocr \in {<<>>} \cup (IF image_key \in DOMAIN image_cache
                                            THEN {image_cache[image_key]} ELSE {}) :
              /\ job' = [job EXCEPT ![t].cached_ocr = cached_ocr]
              /\ pc' = [pc EXCEPT ![t] = IF cached_ocr # <<>> THEN "scached" ELSE "socr"]
        /\ UNCHANGED <<now, ret, image_cache, pdf_cache, completed, overlap, clientVars>>

\* self.db.insert_image_ocr_text(pdf_id, page_number, cached_ocr)
process_image_cached(t) ==
    /\ pc[t] = "scached"
    /\ ForeignKeyOk(db, job[t].pdf_id)
    /\ db' = InsertOcrRow(db, job[t].pdf_id, PageNumber(t), job[t].cached_ocr)
    /\ AfterImage(t)
    /\ UNCHANGED <<now, ret, image_cache, pdf_cache, overlap, clientVars>>

\* A streaming branch that stores and caches the OCR text as the engine
\* returned it.
process_image_ocr_unsanitized(t, ocr_text) ==
    LET info == FileInfo[job[t].file]
        image_key == <<info.file_path, PageNumber(t), job[t].image>>
    IN  /\ pc[t] = "socr"
        /\ ForeignKeyOk(db, job[t].pdf_id)
        /\ IF ocr_text # <<>>
              THEN /\ db' = InsertOcrRow(db, job[t].pdf_id, PageNumber(t), ocr_text)
                   /\ image_cache' = (image_key :> ocr_text) @@ image_cache
              ELSE UNCHANGED <<db, image_cache>>
        /\ AfterImage(t)
        /\ UNCHANGED <<now, ret, pdf_cache, overlap, clientVars>>

\* ocr_text = process_image_bytes(...); if ocr_text: insert_image_ocr_text of
\* the sanitized text and image_cache.put(image_key, sanitized_ocr_text).
process_image_ocr_result(t, ocr_text) ==
    LET info == FileInfo[job[t].file]
        image_key == <<info.file_path, PageNumber(t), job[t].image>>
    IN  /\ pc[t] = "socr"
        /\ ForeignKeyOk(db, job[t].pdf_id)
        /\ IF ocr_text # <<>>
              THEN /\ db' = InsertOcrRow(db, job[t].pdf_id, PageNumber(t),
                                         sanitize_text(ocr_text))
                   /\ image_cache' = (image_key :> sanitize_text(ocr_text)) @@ image_cache
              ELSE UNCHANGED <<db, image_cache>>
        /\ AfterImage(t)
        /\ UNCHANGED <<now, ret, pdf_cache, overlap, clientVars>>

\* The OCR engine reads nothing, or some text.
process_image_ocr(t) == \E ocr_text \in OcrOutcomes : process_image_ocr_result(t, ocr_text)

\* One thread ingests a small file, a large file, and the large file again
\* under another name.
StreamingFiles == {"z", "large", "renamed"}
StreamingThreads == {"t1"}

NextStreaming ==
    \/ \E t \in StreamingThreads, f \in StreamingFiles : process_pdf_call(t, f)
    \/ \E t \in StreamingThreads : process_pdf_check(t)
    \/ \E t \in StreamingThreads : process_pdf_insert(t)
    \/ \E t \in StreamingThreads : process_pdf_page(t)
    \/ \E t \in StreamingThreads : process_pdf_image(t)
    \/ \E t \in StreamingThreads : process_pdf_ocr(t)
    \/ \E t \in StreamingThreads : process_pdf_insert_streaming(t)
    \/ \E t \in StreamingThreads : process_page_callback(t)
    \/ \E t \in StreamingThreads : process_image(t)
    \/ \E t \in StreamingThreads : process_image_cached(t)
    \/ \E t \in StreamingThreads : process_image_ocr(t)

SpecStreaming == Init /\ [][NextStreaming]_vars

\* The pages rows of the document a thread is ingesting.
PageRows(t) == {r \in db.pages : r.pdf_id = job[t].pdf_id}

\* C26: when a process_pdf run is done, large file or not, the pages rows of
\* its document carry the page numbers 1..n, one row each, and a row of a
\* lower page number was inserted before (has a lower id than) one of a
\* higher page number.
C26_PagesInOrder ==
    \A t \in Threads :
        pc[t] = "done"
            => LET n == Len(FileInfo[job[t].file].pages)
               IN  /\ {r.page_number : r \in PageRows(t)} = 1..n
                   /\ Cardinality(PageRows(t)) = n
                   /\ \A r, q \in PageRows(t) :
                         r.page_number < q.page_number => r.id < q.id

\* C26 witness: the thread is done with the large file of six pages, its image
\* text taken from image_cache, after the small file of two pages was ingested.
C26_Witness ==
    /\ pc["t1"] = "done" /\ job["t1"].file = "renamed"
    /\ Cardinality(PageRows("t1")) = 6
    /\ {"z", "large"} \subseteq completed
    /\ Cardinality(db.ocr_text) >= 2

(***************************************************************************)
(* utils/cache.py: MemoryAwareLRUCache.put, entry by entry.                *)
(***************************************************************************)
\* The readings under which _check_memory_pressure evicts nothing.
NoPressure == {m \in MemoryReadings : ~m.percent_high /\ ~m.available_low}

\* The keys whose entry has the oldest access time.
Oldest(d) == {e.key : e \in {x \in Range(d) : \A y \in Range(d) : x.timestamp <= y.timestamp}}

\* C27: without memory pressure, a put of a new key into a MemoryAwareLRUCache
\* holding max_size entries removes exactly one entry, one of oldest access
\* time, and inserts the key; a put of a resident key removes no entry.
C27_PlainLruEviction ==
    [][\A m \in NoPressure :
         (/\ cache.class = "MemoryAwareLRUCache"
          /\ ret'.op = "put"
          /\ MemoryAwareLRUCache_put(ret'.key, ret'.value, m))
            => LET before == KeysOf(cache.cache)
                   after == KeysOf(cache'.cache)
               IN  IF ret'.key \in before
                      THEN after = before
                      ELSE IF Len(cache.cache) = cache.max_size
                      THEN /\ Cardinality(before \ after) = 1
                           /\ before \ after \subseteq Oldest(cache.cache)
                           /\ after = (before \ (before \ after)) \cup {ret'.key}
                      ELSE after = before \cup {ret'.key}]_vars

\* C27 witness: a full cache of two entries whose first entry was read after
\* the second was put has taken a new key, and the second entry is gone.
C27_Witness ==
    /\ cache.class = "MemoryAwareLRUCache" /\ cache.max_size = 2
    /\ ret.op = "put" /\ ret.key = "k3" /\ ret.evicted = {"k2"}
    /\ KeysOf(cache.cache) = {"k1", "k3"}
    /\ Entry(cache.cache, "k1").timestamp < Entry(cache.cache, "k3").timestamp

(***************************************************************************)
(* utils/cache.py: MemoryAwareLRUCache under memory pressure, with a cache *)
(* large enough for a quarter and a half of its entries to differ.         *)
(***************************************************************************)
PressureCapacity == 4

InitPressure == InitNoCache /\ cache = MemoryAwareLRUCache(PressureCapacity)

NextPressure ==
    \/ Sleep
    \/ \E k \in PressureKeys : MemoryAwareLRUCache_get(k)
    \/ \E k \in PressureKeys, m \in MemoryReadings :
          MemoryAwareLRUCache_put(k, "v1", m)
    \/ MemoryAwareLRUCache_clear

SpecPressure == InitPressure /\ [][NextPressure]_vars

\* C28: a put made while memory use is above the ceiling or available memory
\* is below the floor removes max(1, floor(n/4)) of the n resident entries
\* (none when the cache is empty), and they are the oldest ones; after the
\* put the key is resident with the value that was put.
C28_QuarterEvicted ==
    [][\A m \in MemoryReadings :
         (/\ ret'.op = "put"
          /\ ~m.error /\ (m.percent_high \/ m.available_low)
          /\ MemoryAwareLRUCache_put(ret'.key, ret'.value, m))
            => LET n == Len(cache.cache)
                   kept == KeysOf(cache.cache) \ ret'.evicted
               IN  /\ Cardinality(ret'.evicted)
                         = (IF n = 0 THEN 0 ELSE Max({1, n \div 4}))
                   /\ \A x \in ret'.evicted, y \in kept :
                         Entry(cache.cache, x).timestamp <= Entry(cache.cache, y).timestamp
                   /\ ret'.key \in KeysOf(cache'.cache)
                   /\ Entry(cache'.cache, ret'.key).value = ret'.value]_vars

(***************************************************************************)
(* utils/cache.py: EnhancedDiskCache.put when the disk refuses a write.    *)
(* put makes room first, then opens and writes the value file, updates the *)
(* index and saves it, the writes inside try/except (PickleError, IOError);*)
(* _save_metadata catches its own failure.                                  *)
(***************************************************************************)
\* Where a put can fail: opening the value file, pickling into it, or
\* writing metadata.pkl.
PutFaults == {"open", "dump", "save"}

\* What is left in a value file whose pickle.dump failed.
Torn == "torn"

EnhancedDiskCache_put_failing(key, value, fault) ==
    /\ cache.class = "EnhancedDiskCache"
    /\ LET room == ensure_space(cache)
           gone == KeysOf(cache.metadata) \ KeysOf(room.metadata)
           cache_path == get_cache_path(cache.seed, key)
           written == [room EXCEPT
                         !.files = WriteFile(@, cache_path, value),
                         !.metadata = DictSet(@, [key |-> key, size |-> getsize(value),
                                                  created |-> now,
                                                  last_access |-> now])]
       IN /\ cache' = CASE fault = "open" -> room
                        [] fault = "dump" -> [room EXCEPT !.files = WriteFile(@, cache_path, Torn)]
                        [] fault = "save" -> written
          /\ puts' = IF fault = "save"
                        THEN RecordPut(key, value, -1, gone)
                        ELSE [x \in DOMAIN puts |->
                                IF x \in gone THEN [puts[x] EXCEPT !.live = FALSE]
                                ELSE puts[x]]
          /\ ret' = [op |-> "put", key |-> key, value |-> value, evicted |-> gone,
                     error |-> fault]
    /\ UNCHANGED <<now, cacheFrame>>

DiskKeys == {"k1", "k2"}

InitDiskFaults ==
    InitNoCache /\ cache \in {EnhancedDiskCache(2, n, "s1") : n \in 1..MaxCapacity}

NextDiskFaults ==
    \/ Sleep
    \/ \E k \in DiskKeys : EnhancedDiskCache_get(k)
    \/ \E k \in DiskKeys, v \in Values : EnhancedDiskCache_put(k, v)
    \/ \E k \in DiskKeys, fault \in PutFaults :
          EnhancedDiskCache_put_failing(k, "v1", fault)
    \/ EnhancedDiskCache_clear

SpecDiskFaults == InitDiskFaults /\ [][NextDiskFaults]_vars

\* C29: when a get, put or clear of an EnhancedDiskCache has returned, also a
\* put whose write of the value file or of the index failed, metadata.pkl
\* holds the index that is in memory and every key of the index has its
\* value file.
C29_IndexPersisted ==
    (cache.class = "EnhancedDiskCache" /\ ret.op \in {"get", "put", "clear"})
        => /\ cache.metadata_pkl = cache.metadata
           /\ \A k \in KeysOf(cache.metadata) :
                 get_cache_path(cache.seed, k) \in DOMAIN cache.files

(***************************************************************************)
(* utils/db.py: the three child-row inserts against a missing parent.      *)
(* get_connection sets PRAGMA foreign_keys = ON on every connection.       *)
(***************************************************************************)
\* C35: insert_page_text, insert_image_metadata and insert_image_ocr_text
\* called with a pdf_id that has no pdf_files row end with IntegrityError
\* and leave every table of the store, the two full-text tables included,
\* as it was.
C35_OrphanInsertFails ==
    [][\A pdf_id \in PdfIds :
         (/\ ~\E f \in db.pdf_files : f.id = pdf_id
          /\ \/ \E n \in PageNumbers, text \in Texts : insert_page_text(pdf_id, n, text)
             \/ \E n \in PageNumbers : insert_image_metadata(pdf_id, n, "image", "png")
             \/ \E n \in PageNumbers, text \in Texts : insert_image_ocr_text(pdf_id, n, text))
            => /\ ret'.error = "IntegrityError"
               /\ db' = db]_vars

\* C35 witness: an insert has failed on its foreign key in a store that holds
\* a document with a page and its full-text row.
C35_Witness ==
    /\ ret.error = "IntegrityError"
    /\ db.pdf_files # {} /\ db.pages # {} /\ db.fts_content # {}

(***************************************************************************)
(* core/pdf_processor.py, process_pdf: the order of the writes for one     *)
(* embedded image, in the normal branch and in the streaming branch.       *)
(***************************************************************************)
\* The images rows and the ocr_text rows of one page of one document.
ImageRowsOf(pdf_id, page_number) ==
    {r \in db.images : r.pdf_id = pdf_id /\ r.page_number = page_number}

OcrRowsOf(pdf_id, page_number) ==
    {r \in db.ocr_text : r.pdf_id = pdf_id /\ r.page_number = page_number}

\* The thread is about to call the OCR engine for image job[t].image of its
\* current page, or to store the text image_cache held for that image.
AtOcr(t) == pc[t] \in {"ocr", "socr", "scached"}

CurrentPage(t) == IF pc[t] = "ocr" THEN job[t].page ELSE PageNumber(t)

\* C31: when process_pdf calls the OCR engine for an embedded image, the
\* metadata row of that image is in the store already; the call is followed
\* by one new ocr_text row if and only if the engine returned a non-empty
\* text; and for every document and page the ocr_text rows never outnumber
\* the images rows.
C31_MetadataBeforeOcr ==
    /\ [](\A t \in Threads :
            AtOcr(t) => Cardinality(ImageRowsOf(job[t].pdf_id, CurrentPage(t)))
                            >= job[t].image)
    /\ [][\A t \in Threads, ocr_text \in OcrOutcomes :
            (process_pdf_ocr_result(t, ocr_text) \/ process_image_ocr_result(t, ocr_text))
                => /\ (ocr_text # <<>>)
                        <=> Cardinality(db'.ocr_text) = Cardinality(db.ocr_text) + 1
                   /\ (ocr_text = <<>>) <=> (db'.ocr_text = db.ocr_text)
                   /\ db'.images = db.images]_vars
    /\ [](\A o \in db.ocr_text :
            Cardinality(OcrRowsOf(o.pdf_id, o.page_number))
                <= Cardinality(ImageRowsOf(o.pdf_id, o.page_number)))

\* C31 witness: the small file with two images on its first page is stored
\* with two images rows and one ocr_text row on that page (the engine read
\* nothing from one image), and the large file was streamed after it.
C31_Witness ==
    /\ {"z", "large"} \subseteq completed
    /\ \E pdf_id \in PdfIds :
          /\ Cardinality(ImageRowsOf(pdf_id, 1)) = 2
          /\ Cardinality(OcrRowsOf(pdf_id, 1)) = 1
    /\ \E pdf_id \in PdfIds :
          /\ Cardinality(ImageRowsOf(pdf_id, 1)) = 1
          /\ Cardinality(OcrRowsOf(pdf_id, 1)) = 1

(***************************************************************************)
(* core/pdf_processor.py, process_pdf: what is put into image_cache and    *)
(* where image_cache is read.                                              *)
(***************************************************************************)
\* The image_cache key of the image the thread is working on.
image_key_of(t) ==
    <<FileInfo[job[t].file].file_path, CurrentPage(t), job[t].image>>

\* C32: every non-empty OCR result is put into image_cache under the key
\* (document path, page number, image index), and process_pdf never calls the
\* OCR engine for an image whose key is in image_cache, in the normal branch
\* as in the streaming branch.
C32_CachedOcrReused ==
    /\ [][\A t \in Threads, ocr_text \in OcrOutcomes :
            ((process_pdf_ocr_result(t, ocr_text) \/ process_image_ocr_result(t, ocr_text))
               /\ ocr_text # <<>>)
                => /\ image_key_of(t) \in DOMAIN image_cache'
                   /\ image_cache'[image_key_of(t)] = sanitize_text(ocr_text)]_vars
    /\ [](\A t \in Threads :
            pc[t] = "ocr" => image_key_of(t) \notin DOMAIN image_cache)

(***************************************************************************)
(* core/pdf_processor.py, process_pdf: a run that ends after its pdf_files *)
(* row was committed and before its last page was.  Every insert commits   *)
(* on its own; "except Exception" logs and raises again, and nothing       *)
(* deletes what was written.                                               *)
(***************************************************************************)
\* Between the insert of the pdf_files row and the end of process_pdf.
Writing == {"page", "image", "ocr", "spage", "simage", "scached", "socr"}

\* An exception handler that deletes the rows of the document it gave up.
process_pdf_fail_rollback(t) ==
    /\ pc[t] \in Writing
    /\ db' = [db EXCEPT !.pdf_files = {f \in @ : f.id # job[t].pdf_id},
                        !.pages = {p \in @ : p.pdf_id # job[t].pdf_id}]
    /\ pc' = [pc EXCEPT ![t] = "raised"]
    /\ UNCHANGED <<now, ret, job, image_cache, pdf_cache, completed, overlap, clientVars>>

\* A store call, the page extraction or the OCR call raises, or the process
\* dies: process_pdf ends there ("except Exception as e: ... raise").
process_pdf_fail(t) ==
    /\ pc[t] \in Writing
    /\ pc' = [pc EXCEPT ![t] = "raised"]
    /\ UNCHANGED <<db, now, ret, job, image_cache, pdf_cache, completed, overlap, clientVars>>

\* One thread ingests a two-page file and a streamed file, each run ending
\* at any point.
FailureFiles == {"z", "large"}
FailureThreads == {"t1"}

NextFailures ==
    \/ \E t \in FailureThreads, f \in FailureFiles : process_pdf_call(t, f)
    \/ \E t \in Threads : process_pdf_check(t)
    \/ \E t \in Threads : process_pdf_insert(t)
    \/ \E t \in Threads : process_pdf_page(t)
    \/ \E t \in Threads : process_pdf_image(t)
    \/ \E t \in Threads : process_pdf_ocr(t)
    \/ \E t \in Threads : process_pdf_insert_streaming(t)
    \/ \E t \in Threads : process_page_callback(t)
    \/ \E t \in Threads : process_image(t)
    \/ \E t \in Threads : process_image_ocr(t)
    \/ \E t \in Threads : process_pdf_fail(t)

SpecFailures == Init /\ [][NextFailures]_vars

\* The pages rows of the documents stored for a file's pair.
StoredPages(f) == {p \in db.pages : \E r \in RowsOf(f) : p.pdf_id = r.id}

\* The file has its pdf_files row, not all of its pages, and no run is
\* writing it.
Abandoned(f) ==
    /\ RowsOf(f) # {}
    /\ Cardinality(StoredPages(f)) < Len(FileInfo[f].pages)
    /\ \A t \in Threads : ~(job[t].file = f /\ pc[t] \in Writing)

\* C33: a process_pdf that ends after the pdf_files row was inserted and
\* before all pages were written leaves the store as it is at that point;
\* from then on the file stays with its pdf_files row and the pages written
\* so far, and every later process_pdf of the same pair is skipped at its
\* check, writing nothing.
C33_PartialDocumentStays ==
    /\ [][\A t \in Threads : process_pdf_fail(t) => db' = db]_vars
    /\ [][\A f \in FailureFiles :
            Abandoned(f) => /\ Abandoned(f)'
                            /\ RowsOf(f)' = RowsOf(f)
                            /\ StoredPages(f)' = StoredPages(f)]_vars
    /\ [][\A t \in Threads :
            (process_pdf_check(t) /\ Abandoned(job[t].file))
                => (pc'[t] = "skipped" /\ db' = db)]_vars

\* C33 witness: the two-page file failed after its first page; a later run
\* of it was skipped, and the store has one of its two pages.
C33_Witness ==
    /\ Abandoned("z")
    /\ pc["t1"] = "skipped" /\ job["t1"].file = "z"
    /\ Cardinality(StoredPages("z")) = 1
    /\ "z" \notin completed

(***************************************************************************)
(* core/pdf_processor.py, process_pdf: the streaming branch against the    *)
(* normal branch, on one document kept in a file under the threshold and   *)
(* in a file over it.  The OCR engine is a function of the image.          *)
(***************************************************************************)
\* The images of the scanned document: (page number, image index).
ScanImages ==
    {<<p, i>> : p \in DOMAIN ScanPages, i \in 1..2} \cap
    {<<p, i>> \in (1..Len(ScanPages)) \X (1..2) : i <= ScanPages[p].images}

ScanFiles == {"scan", "bigscan"}
ScanThreads == {"t1"}

InitEquivalence ==
    /\ db = create_database
    /\ now = 0
    /\ ret = NoReturn
    /\ pc = [t \in Threads |-> "idle"]
    /\ job = [t \in Threads |-> NoJob]
    /\ image_cache = <<>>
    /\ pdf_cache = {}
    /\ completed = {}
    /\ overlap = {}
    /\ pager = NoPager
    /\ cache = NoCache
    /\ puts = NoPuts
    /\ ocr = TesseractOCRProcessor(TRUE)
    /\ batch = NoBatch
    /\ engine \in [ScanImages -> OcrOutcomes]
    /\ window = SearchApp
    /\ checker = MemoryCheck

\* image_cache has no entry of the file the thread is about to ingest.
process_pdf_call_uncached(t, f) ==
    /\ \A k \in DOMAIN image_cache : k[1] # FileInfo[f].file_path
    /\ process_pdf_call(t, f)

NextEquivalence ==
    \/ \E t \in ScanThreads, f \in ScanFiles : process_pdf_call_uncached(t, f)
    \/ \E t \in Threads : process_pdf_check(t)
    \/ \E t \in Threads : process_pdf_insert(t)
    \/ \E t \in Threads : process_pdf_page(t)
    \/ \E t \in Threads : process_pdf_image(t)
    \/ \E t \in Threads : process_pdf_ocr_result(t, engine[<<job[t].page, job[t].image>>])
    \/ \E t \in Threads : process_pdf_insert_streaming(t)
    \/ \E t \in Threads : process_page_callback(t)
    \/ \E t \in Threads : process_image(t)
    \/ \E t \in Threads : process_image_ocr_result(t, engine[<<PageNumber(t), job[t].image>>])

SpecEquivalence == InitEquivalence /\ [][NextEquivalence]_vars

\* The rows a table holds for the document stored from file f, each with its
\* position among them in insertion order in place of its id and pdf_id.
RowsFor(table, f) == {r \in table : \E d \in RowsOf(f) : r.pdf_id = d.id}

Position(r, rows) == Cardinality({q \in rows : q.id <= r.id})

PagesView(f) ==
    {<<Position(r, RowsFor(db.pages, f)), r.page_number, r.text>> :
        r \in RowsFor(db.pages, f)}

ImagesView(f) ==
    {<<Position(r, RowsFor(db.images, f)), r.page_number, r.image_name, r.image_ext>> :
        r \in RowsFor(db.images, f)}

OcrView(f) ==
    {<<Position(r, RowsFor(db.ocr_text, f)), r.page_number, r.ocr_text>> :
        r \in RowsFor(db.ocr_text, f)}

\* The image_cache entries of file f, without the path.
CacheView(f) ==
    {<<k[2], k[3], image_cache[k]>> :
        k \in {x \in DOMAIN image_cache : x[1] = FileInfo[f].file_path}}

\* C36: for the same document, the same OCR results and no entry of the
\* document in image_cache, the streaming branch and the normal branch of
\* process_pdf leave the same pages, images and ocr_text rows in the store
\* and the same entries in image_cache.
C36_StreamingEqualsNormal ==
    ScanFiles \subseteq completed
        => /\ PagesView("scan") = PagesView("bigscan")
           /\ ImagesView("scan") = ImagesView("bigscan")
           /\ OcrView("scan") = OcrView("bigscan")
           /\ CacheView("scan") = CacheView("bigscan")

\* C36 witness: both files are stored, six pages and three images each, the
\* engine having read text from the second image of page 1 and from the image
\* of page 6 and nothing from the first image.
C36_Witness ==
    /\ ScanFiles \subseteq completed
    /\ Cardinality(PagesView("bigscan")) = 6
    /\ Cardinality(ImagesView("bigscan")) = 3
    /\ engine[<<1, 1>>] = <<>> /\ engine[<<1, 2>>] # <<>> /\ engine[<<6, 1>>] # <<>>
    /\ Cardinality(OcrView("bigscan")) = 2
    /\ Cardinality(CacheView("bigscan")) = 2

(***************************************************************************)
(* core/ocr/tesseract.py: extract_text calls of worker threads that share  *)
(* one TesseractOCRProcessor, and _cleanup_temp_directories called from    *)
(* the main thread (main.py, on_closing) or from __del__ meanwhile.        *)
(* ocr.calls[t] is the temp_dir local of the call thread t is in, 0 when   *)
(* the thread is in no call.                                               *)
(***************************************************************************)
\* extract_text up to the start of tesseract: _create_secure_temp_file makes
\* the directory and appends it to self._temp_dirs.
extract_text_begin(t) ==
    LET dir == ocr.made + 1
    IN  /\ ocr.calls[t] = 0
        /\ ocr.made < MaxTempDirs
        /\ ocr' = [ocr EXCEPT !.made = dir, !.fs = @ \cup {dir},
                              !.temp_dirs = @ \cup {dir}, !.calls[t] = dir]
        /\ ret' = [op |-> "extract_text", thread |-> t, dir |-> dir, existed |-> TRUE]
        /\ UNCHANGED <<db, now, threadVars, pager, cache, puts, batch, engine, window, checker>>

\* tesseract has returned: its output file is read if the directory is still
\* there, "" returned otherwise; then the finally block of the call: rmtree
\* if the directory exists, and its removal from self._temp_dirs.
extract_text_end(t, output) ==
    LET dir == ocr.calls[t]
    IN  /\ dir # 0
        /\ ocr' = [ocr EXCEPT !.fs = @ \ {dir}, !.temp_dirs = @ \ {dir}, !.calls[t] = 0]
        /\ ret' = [op |-> "extract_text", thread |-> t, dir |-> dir,
                   existed |-> dir \in ocr.fs,
                   value |-> IF dir \in ocr.fs THEN Strip(output) ELSE <<>>]
        /\ UNCHANGED <<db, now, threadVars, pager, cache, puts, batch, engine, window, checker>>

NextOcrThreads ==
    \/ \E t \in Threads : extract_text_begin(t)
    \/ \E t \in Threads, output \in OcrOutputs : extract_text_end(t, output)
    \/ cleanup_temp_directories

SpecOcrThreads == Init /\ [][NextOcrThreads]_vars

\* C37: the temporary directory of an extract_text call that is still
\* running is on disk until that call's own cleanup removes it:
\* _cleanup_temp_directories called from another thread never deletes it.
C37_InFlightDirectoryKept ==
    /\ [](\A t \in Threads : ocr.calls[t] # 0 => ocr.calls[t] \in ocr.fs)
    /\ [][cleanup_temp_directories
            => \A t \in Threads : ocr.calls[t] # 0 => ocr.calls[t] \in ocr'.fs]_vars

(***************************************************************************)
(* utils/memory.py, MemoryCheck: start() and stop() called one after the   *)
(* other by one thread, and the _check_loop threads they start.  A loop    *)
(* thread is "testing" (at `while self.running`, or in the sleep that      *)
(* polls self.running every 0.1 s), "acting" (in get_memory_usage and      *)
(* self.action()) or "ended".                                              *)
(***************************************************************************)
MaxLoopThreads == 3   \* _check_loop threads ever started

checkerFrame ==
    <<db, now, ret, threadVars, pager, cache, puts, ocr, batch, engine, window>>

Alive == {l \in DOMAIN checker.loops : checker.loops[l] # "ended"}

\* start(): returns at once while self.running; else sets it, makes the
\* thread and starts it.
MemoryCheck_start ==
    /\ checker.at = "idle"
    /\ ~checker.running
    /\ Len(checker.loops) < MaxLoopThreads
    /\ checker' = [checker EXCEPT !.running = TRUE,
                                  !.thread = Len(checker.loops) + 1,
                                  !.loops = Append(@, "testing")]
    /\ UNCHANGED checkerFrame

\* stop(): self.running = False; with no thread it returns, else it joins.
MemoryCheck_stop ==
    /\ checker.at = "idle"
    /\ checker' = [checker EXCEPT !.running = FALSE,
                                  !.at = IF checker.thread = 0 THEN "idle" ELSE "joining",
                                  !.joined = checker.thread]
    /\ UNCHANGED checkerFrame

\* self.thread.join(timeout=1.0) returns: the thread has ended, or the second
\* is over while the thread is still in its action; then self.thread = None.
MemoryCheck_join ==
    /\ checker.at = "joining"
    /\ checker.loops[checker.joined] \in {"ended", "acting"}
    /\ checker' = [checker EXCEPT !.at = "idle", !.joined = 0, !.thread = 0]
    /\ UNCHANGED checkerFrame

\* _check_loop reads self.running: on to the memory check, or out of the loop.
check_loop_test(l) ==
    /\ l \in DOMAIN checker.loops
    /\ checker.loops[l] = "testing"
    /\ checker' = [checker EXCEPT !.loops[l] = IF checker.running THEN "acting" ELSE "ended"]
    /\ UNCHANGED checkerFrame

\* get_memory_usage and self.action() return.
check_loop_act(l) ==
    /\ l \in DOMAIN checker.loops
    /\ checker.loops[l] = "acting"
    /\ checker' = [checker EXCEPT !.loops[l] = "testing"]
    /\ UNCHANGED checkerFrame

NextChecker ==
    \/ MemoryCheck_start
    \/ MemoryCheck_stop
    \/ MemoryCheck_join
    \/ \E l \in 1..MaxLoopThreads : check_loop_test(l)
    \/ \E l \in 1..MaxLoopThreads : check_loop_act(l)

\* The loop threads are scheduled, and join returns.
SpecChecker ==
    /\ Init /\ [][NextChecker]_vars
    /\ \A l \in 1..MaxLoopThreads :
          WF_vars(check_loop_test(l)) /\ WF_vars(check_loop_act(l))
    /\ WF_vars(MemoryCheck_join)

\* C38: at most one _check_loop thread is running at any time, and a loop
\* thread that was running when stop() was called eventually ends, also when
\* start() is called again afterwards.
C38_OneLoopThread ==
    /\ [](Cardinality(Alive) <= 1)
    /\ \A l \in 1..MaxLoopThreads :
          (l \in Alive /\ checker.at = "joining" /\ checker.joined = l)
              ~> (l \notin Alive)

(***************************************************************************)
(* gui/search_app.py: the search window.  search_keywords runs in the Tk   *)
(* main thread and starts search_db in a thread of its own; search_db      *)
(* hands its callbacks to the event loop with root.after(0, ...), and the  *)
(* event loop runs them one at a time in the main thread.  search_cache is *)
(* the module-level TimedCache(ttl=300), held in `cache`.                  *)
(***************************************************************************)
MaxSearches == 2      \* searches started in the window

\* self.results_per_page: int = 50
results_per_page == 50
\* search_cache = TimedCache(ttl=300)
search_ttl == 300

\* str(bool)
BoolText(b) == IF b THEN <<"T", "r", "u", "e">> ELSE <<"F", "a", "l", "s", "e">>

\* cache_key = f"{self.current_search_term}_{self.current_page}_{self.use_fts}"
ResultsKey(term, page, use_fts) ==
    term \o <<"_">> \o DecimalText(page) \o <<"_">> \o BoolText(use_fts)

\* count_cache_key = f"count_{search_term}_{self.use_fts}"
CountKey(term, use_fts) ==
    <<"c", "o", "u", "n", "t", "_">> \o term \o <<"_">> \o BoolText(use_fts)

\* TimedCache.get on cache c at time t: the value, and the cache it leaves
\* (an expired entry is deleted).
TimedGet(c, key, t) ==
    IF key \in KeysOf(c.cache) /\ t < Entry(c.cache, key).expiration_time
       THEN Entry(c.cache, key).value ELSE NoValue

TimedAfterGet(c, key, t) ==
    IF key \in KeysOf(c.cache) /\ ~(t < Entry(c.cache, key).expiration_time)
       THEN [c EXCEPT !.cache = DictDel(@, {key})] ELSE c

\* TimedCache.put with the default ttl.
TimedAfterPut(c, key, value, t) ==
    [c EXCEPT !.cache = DictSet(@, [key |-> key, value |-> value,
                                    expiration_time |-> Expiration(t, <<>>, c.ttl)])]

windowFrame == <<threadVars, pager, puts, ocr, batch, engine, checker>>

\* A search_keywords without the search_in_progress test.
search_keywords_reentrant(raw_search_term, use_fts_var) ==
    LET search_term == sanitize_search_term(raw_search_term)
        count_cache_key == CountKey(search_term, use_fts_var)
    IN  /\ window.started < MaxSearches
        /\ UNCHANGED <<db, now, windowFrame>>
        /\ IF raw_search_term = <<>> \/ search_term = <<>>
              THEN /\ UNCHANGED <<window, cache>>
                   /\ ret' = [op |-> "search_keywords", started |-> FALSE]
              ELSE /\ window' = [window EXCEPT
                         !.search_in_progress = TRUE, !.tree = <<>>,
                         !.current_search_term = search_term, !.current_page = 0,
                         !.use_fts = use_fts_var, !.search_term = search_term,
                         !.cached_count_value = TimedGet(cache, count_cache_key, now),
                         !.workers = @ + 1, !.started = @ + 1]
                   /\ cache' = TimedAfterGet(cache, count_cache_key, now)
                   /\ ret' = [op |-> "search_keywords", started |-> TRUE]

\* search_keywords: ignored while a search is in progress or when the term
\* is empty before or after sanitizing; else the flag is set, the state of
\* the search reset, the cached count read and the search_db thread started.
SearchApp_search_keywords(raw_search_term, use_fts_var) ==
    LET search_term == sanitize_search_term(raw_search_term)
        count_cache_key == CountKey(search_term, use_fts_var)
    IN  /\ window.started < MaxSearches
        /\ UNCHANGED <<db, now, windowFrame>>
        /\ IF window.search_in_progress \/ raw_search_term = <<>> \/ search_term = <<>>
              THEN /\ UNCHANGED <<window, cache>>
                   /\ ret' = [op |-> "search_keywords", started |-> FALSE]
              ELSE /\ window' = [window EXCEPT
                         !.search_in_progress = TRUE, !.tree = <<>>,
                         !.current_search_term = search_term, !.current_page = 0,
                         !.use_fts = use_fts_var, !.search_term = search_term,
                         !.cached_count_value = TimedGet(cache, count_cache_key, now),
                         !.workers = @ + 1, !.started = @ + 1]
                   /\ cache' = TimedAfterGet(cache, count_cache_key, now)
                   /\ ret' = [op |-> "search_keywords", started |-> TRUE]

\* What get_search_count returns for a term.
SearchCount(d, term, use_fts) ==
    LET sanitized == sanitize_search_term(term)
    IN  IF sanitized = <<>> \/ (use_fts /\ FtsSyntaxError(sanitized)) THEN 0
        ELSE Cardinality(IF use_fts THEN FtsCountRows(d, sanitized)
                                    ELSE LikeCountRows(d, sanitized))

\* The exceptions the count may end with: two that search_db names in its
\* except clauses and one that it does not.
SearchFaults == {"none", "sqlite3.OperationalError", "ValueError", "RuntimeError"}

\* The body of search_db, in its thread: the count from the cached value or
\* from the store (then put into search_cache); the callbacks handed to the
\* event loop; in the finally block, the callback that resets the flag.
search_db(exc) ==
    LET count_cache_key == CountKey(window.search_term, window.use_fts)
        cached == window.cached_count_value
        done == [window EXCEPT !.workers = @ - 1]
    IN  /\ window.workers > 0
        /\ UNCHANGED <<db, now, windowFrame>>
        /\ IF cached.kind = "int"
           THEN /\ exc = "none"
                /\ window' = [done EXCEPT
                      !.total_results = cached.n,
                      !.events = @ \o <<"update_pagination_controls",
                                        "load_search_results", "reset">>]
                /\ UNCHANGED <<cache, ret>>
           ELSE IF exc = "none"
           THEN LET n == SearchCount(db, window.search_term, window.use_fts)
                IN  /\ window' = [done EXCEPT
                          !.total_results = n,
                          !.events = @ \o <<"update_pagination_controls",
                                            "load_search_results", "reset">>]
                    /\ cache' = TimedAfterPut(cache, count_cache_key, IntValue(n), now)
                    /\ ret' = [NoReturn EXCEPT !.op = "get_search_count",
                                   !.term = window.search_term,
                                   !.use_fts = window.use_fts, !.count = n]
           ELSE /\ window' = [done EXCEPT
                      !.events = @ \o (IF exc = "RuntimeError" THEN <<>>
                                       ELSE <<"showerror", "status">>) \o <<"reset">>]
                /\ cache' = cache
                /\ ret' = [NoReturn EXCEPT !.op = "get_search_count", !.error = exc]

\* load_search_results, run by the event loop.
SearchApp_load_search_results ==
    LET cache_key == ResultsKey(window.current_search_term, window.current_page,
                                window.use_fts)
        cached_value == TimedGet(cache, cache_key, now)
        looked == TimedAfterGet(cache, cache_key, now)
        popped == [window EXCEPT !.events = Tail(@)]
    IN  /\ window.events # <<>>
        /\ Head(window.events) = "load_search_results"
        /\ UNCHANGED <<now, windowFrame>>
        /\ IF window.current_search_term = <<>>
           THEN /\ window' = popped
                /\ UNCHANGED <<db, ret, cache>>
           \* if cached_results: a list that is not empty
           ELSE IF cached_value.kind = "list" /\ cached_value.rows # <<>>
           THEN /\ window' = [popped EXCEPT !.tree = cached_value.rows,
                                            !.queried = FALSE]
                /\ cache' = looked
                /\ UNCHANGED <<db, ret>>
           ELSE /\ SearchEffect(window.current_search_term, window.use_fts,
                                results_per_page,
                                window.current_page * results_per_page,
                                OrderByLastAccessedDesc)
                /\ cache' = TimedAfterPut(looked, cache_key, ListValue(ret'.result), now)
                /\ window' = [popped EXCEPT !.tree = ret'.result, !.queried = TRUE]

\* The event loop runs the next callback other than load_search_results:
\* the labels, a message box, or setattr(self, 'search_in_progress', False).
Tk_callback ==
    /\ window.events # <<>>
    /\ Head(window.events) # "load_search_results"
    /\ window' = [window EXCEPT
                     !.events = Tail(@),
                     !.search_in_progress =
                         IF Head(window.events) = "reset" THEN FALSE ELSE @]
    /\ UNCHANGED <<db, now, ret, cache, windowFrame>>

\* Five minutes pass: what search_cache holds has expired.
Expire ==
    /\ now < search_ttl
    /\ now' = now + search_ttl
    /\ UNCHANGED <<db, ret, ingestVars>>

RawTerms == {<<>>, <<"'">>, <<"a">>, <<"z">>}

InitWindow == InitNoCache /\ cache = TimedCache(search_ttl)

NextWindow ==
    \/ \E n \in FileNames, p \in FilePaths :
          ~is_pdf_processed(db, PDFMetadata(n, p)) /\ insert_pdf_file(n, p)
    \/ \E f \in db.pdf_files : insert_page_text(f.id, 1, PagingText)
    \/ Expire
    \/ \E raw \in RawTerms, use_fts_var \in BOOLEAN :
          SearchApp_search_keywords(raw, use_fts_var)
    \/ \E exc \in SearchFaults : search_db(exc)
    \/ SearchApp_load_search_results
    \/ Tk_callback

SpecWindow == InitWindow /\ [][NextWindow]_vars

\* C34: load_search_results first looks into search_cache under the key of
\* (term, results page, use_fts): on a hit it shows the cached rows and does
\* not query the store; on a miss it queries the store, puts the rows it got
\* (an empty list too) under that key and shows them.  The count of a term
\* is reused from search_cache or fetched and put in the same way.
C34_SearchCacheConsulted ==
    /\ [][(SearchApp_load_search_results /\ window.current_search_term # <<>>)
            => LET cache_key == ResultsKey(window.current_search_term,
                                           window.current_page, window.use_fts)
                   cached_value == TimedGet(cache, cache_key, now)
               IN  IF cached_value.kind = "list"
                      THEN /\ ~window'.queried
                           /\ window'.tree = cached_value.rows
                           /\ db' = db
                      ELSE /\ window'.queried
                           /\ window'.tree = ret'.result
                           /\ TimedGet(cache', cache_key, now) = ListValue(ret'.result)]_vars
    /\ [][search_db("none")
            => IF window.cached_count_value.kind = "int"
                  THEN /\ window'.total_results = window.cached_count_value.n
                       /\ UNCHANGED <<db, ret>>
                  ELSE /\ ret'.op = "get_search_count"
                       /\ window'.total_results = ret'.count
                       /\ TimedGet(cache', CountKey(window.search_term, window.use_fts), now)
                             = IntValue(ret'.count)]_vars

\* The window over a store that other threads fill, nothing expiring.
NextSearching ==
    \/ \E n \in FileNames, p \in FilePaths :
          ~is_pdf_processed(db, PDFMetadata(n, p)) /\ insert_pdf_file(n, p)
    \/ \E f \in db.pdf_files : insert_page_text(f.id, 1, PagingText)
    \/ \E raw \in RawTerms, use_fts_var \in BOOLEAN :
          SearchApp_search_keywords(raw, use_fts_var)
    \/ \E exc \in SearchFaults : search_db(exc)
    \/ SearchApp_load_search_results
    \/ Tk_callback

\* The search_db thread runs to its end and the event loop runs the
\* callbacks handed to it.
SpecWindowFair ==
    /\ InitWindow /\ [][NextSearching]_vars
    /\ WF_vars(\E exc \in SearchFaults : search_db(exc))
    /\ WF_vars(SearchApp_load_search_results)
    /\ WF_vars(Tk_callback)

\* C39: at most one search_db thread is active at a time, and only while
\* search_in_progress is set; search_keywords called while the flag is set
\* changes nothing; and after every search that was started the flag is
\* eventually false again, whether search_db succeeds or raises.
C39_OneSearchWorker ==
    /\ [](window.workers <= 1 /\ (window.workers > 0 => window.search_in_progress))
    /\ [][\A raw \in RawTerms, use_fts_var \in BOOLEAN :
            (SearchApp_search_keywords(raw, use_fts_var) /\ window.search_in_progress)
                => UNCHANGED <<window, cache, db>>]_vars
    /\ window.search_in_progress ~> ~window.search_in_progress

\* C39 witness: while the first search is in progress, its thread not yet
\* done, a second request was made and ignored.
C39_Witness ==
    /\ window.search_in_progress /\ window.workers = 1 /\ window.started = 1
    /\ ret = [op |-> "search_keywords", started |-> FALSE]

====
